---- MODULE Spec2Model ----
(***************************************************************************)
(* The list operator node of the workflow engine                           *)
(* (api/core/workflow/nodes/list_operator/node.py): one invocation of      *)
(* ListOperatorNode._run over a variable pool, and its stages filter,      *)
(* extract, order and limit.                                               *)
(*                                                                         *)
(* Representation.  A Python str is the sequence of its code points        *)
(* ("ab" is <<97, 98>>), so that substring tests and the ordering used by  *)
(* sorted() are computed, not assumed.  None is the string "None"; an      *)
(* optional str is <<>> (None) or <<s>>.  A number held in an array or in  *)
(* a file's size is an integer; the number that float() returns is a       *)
(* record (see NearestDouble) that tells where it lies among the integers. *)
(* A segment is a record [kind, value].  Comparison operators and          *)
(* attribute keys are only ever compared for equality and are TLA+         *)
(* strings; the operators written with non-ASCII symbols in the source are *)
(* spelled "!=", "<=" and ">=" here.                                       *)
(***************************************************************************)
EXTENDS Integers, Sequences, FiniteSets, TLC

VARIABLES
    pool,          \* the variable pool: the binding of the node's selector
    node_data,     \* ListOperatorNodeData: filter_by, extract_by, order_by, limit
    pc,            \* position inside _run / the stage under study
    variable,      \* the local `variable` of _run
    inputs,        \* local `inputs`
    process_data,  \* local `process_data`
    run_result,    \* the NodeRunResult returned (status "none" before the return)
    raised,        \* the exception that left _run uncaught, NoExc otherwise
    stage_log      \* the calls made so far: <<[stage, arg, ret, exc]>>

vars == <<pool, node_data, pc, variable, inputs, process_data,
          run_result, raised, stage_log>>

-----------------------------------------------------------------------------
(* Bounds of the model *)

\* longest array given to one call of _extract_slice, _apply_order, _apply_slice
MaxLen == 4
\* longest array given to one call of _apply_filter
MaxFilterLen == 2
\* most filter conditions of one call of _apply_filter
MaxConds == 2
\* longest array bound in the pool for a whole run (Spec)
RunMaxLen == 2
\* longest array of the invocations followed step by step
StepMaxLen == 1
\* longest array bound in the pool two interleaved invocations share
ParMaxLen == 2

-----------------------------------------------------------------------------
(* Python values *)

None == "None"

\* an exception: its class and its message; NoExc when nothing was raised
Exc(type, msg) == [type |-> type, msg |-> msg]
NoExc == Exc(None, "")

\* str literals used by the model
S_empty == <<>>
S_a == <<97>>
S_b == <<98>>
S_ab == <<97, 98>>
S_x == <<120>>
S_1 == <<49>>
S_2 == <<50>>
S_5 == <<53>>
S_m1 == <<45, 49>>
S_10 == <<49, 48>>
S_image == <<105, 109, 97, 103, 101>>
S_document == <<100, 111, 99, 117, 109, 101, 110, 116>>
S_local_file == <<108, 111, 99, 97, 108, 95, 102, 105, 108, 101>>
S_remote_url == <<114, 101, 109, 111, 116, 101, 95, 117, 114, 108>>

Some(s) == <<s>>
NoStr == <<>>

\* an element or None: <<x>> or <<>>
NoRecord == <<>>

\* `x or ""` for an Optional[str] attribute
OrEmpty(opt) == IF opt = NoStr THEN S_empty ELSE opt[1]

\* a < b for two str: lexicographic by code point
RECURSIVE StrLess(_, _)
StrLess(a, b) ==
    IF b = <<>> THEN FALSE
    ELSE IF a = <<>> THEN TRUE
    ELSE IF a[1] # b[1] THEN a[1] < b[1]
    ELSE StrLess(Tail(a), Tail(b))

\* The integers of the model are those of the model checker; a number that
\* int() or float() returns beyond them is held at this limit (int) or as a
\* float above / below every integer of the model (float).
LargestInt == 2147483647

\* the white space that int() and float() strip: Py_UNICODE_ISSPACE above
\* ASCII, Py_ISSPACE in ASCII (the separators 28..31 are str.isspace() but
\* are not stripped)
PySpaces ==
    {9, 10, 11, 12, 13, 32, 133, 160, 5760} \cup (8192..8202)
    \cup {8232, 8233, 8239, 8287, 12288}

\* the digit zero of every block of Unicode decimal digits (category Nd,
\* Unicode 14.0); the digits 0..9 of a block are contiguous
DecimalZeros ==
    {48, 1632, 1776, 1984, 2406, 2534, 2662, 2790, 2918, 3046, 3174,
     3302, 3430, 3558, 3664, 3792, 3872, 4160, 4240, 6112, 6160, 6470,
     6608, 6784, 6800, 6992, 7088, 7232, 7248, 42528, 43216, 43264,
     43472, 43504, 43600, 44016, 65296, 66720, 68912, 69734, 69872,
     69942, 70096, 70384, 70736, 70864, 71248, 71360, 71472, 71904,
     72016, 72784, 73040, 73120, 92768, 92864, 93008, 120782, 120792,
     120802, 120812, 120822, 123200, 123632, 125264, 130032}

IsDigit(c) == \E z \in DecimalZeros : c >= z /\ c <= z + 9

IsAsciiDigit(c) == c >= 48 /\ c <= 57

\* _PyUnicode_TransformDecimalAndSpaceToASCII: above ASCII a space becomes
\* " ", a decimal digit its ASCII digit and anything else "?"
ToAscii(s) ==
    [i \in 1..Len(s) |->
        IF s[i] < 127 THEN s[i]
        ELSE IF s[i] \in PySpaces THEN 32
        ELSE IF IsDigit(s[i])
        THEN 48 + s[i] - (CHOOSE z \in DecimalZeros : s[i] >= z /\ s[i] <= z + 9)
        ELSE 63]

\* leading and trailing white space removed, in a text that is ASCII
Strip(s) ==
    LET I == {i \in 1..Len(s) : s[i] \notin PySpaces}
    IN  IF I = {} THEN <<>>
        ELSE SubSeq(s, CHOOSE i \in I : \A j \in I : i <= j,
                       CHOOSE i \in I : \A j \in I : i >= j)

\* an underscore is allowed between two digits only
UnderscoresOk(s) ==
    \A i \in 1..Len(s) :
        s[i] = 95 => /\ i > 1 /\ i < Len(s)
                     /\ IsAsciiDigit(s[i - 1]) /\ IsAsciiDigit(s[i + 1])

\* the text behind its sign
Unsigned(s) == IF s # <<>> /\ s[1] \in {43, 45} THEN Tail(s) ELSE s

\* the value of a string of ASCII digits, held at LargestInt
RECURSIVE DigitsValue(_, _)
DigitsValue(s, acc) ==
    IF s = <<>> THEN acc
    ELSE IF acc > 214748364 \/ (acc = 214748364 /\ s[1] - 48 > 7) THEN LargestInt
    ELSE DigitsValue(Tail(s), acc * 10 + (s[1] - 48))

\* int(text) returns: white space, an optional sign, then digits with single
\* underscores between them, at most 4300 digits
\* (sys.get_int_max_str_digits())
IsIntLiteral(text) ==
    \E body \in {Unsigned(Strip(t)) : t \in {ToAscii(text)}} :
        /\ body # <<>>
        /\ \A i \in 1..Len(body) : IsAsciiDigit(body[i]) \/ body[i] = 95
        /\ UnderscoresOk(body)
        /\ Len(SelectSeq(body, IsAsciiDigit)) <= 4300

IntLiteralValue(text) ==
    CHOOSE n \in {(IF s[1] = 45 THEN 0 - 1 ELSE 1)
                  * DigitsValue(SelectSeq(Unsigned(s), IsAsciiDigit), 0) :
                  s \in {Strip(t) : t \in {ToAscii(text)}}} : TRUE

\* int(text): [exc, val]; text that is no integer literal raises ValueError
PyInt(text) ==
    IF IsIntLiteral(text) THEN [exc |-> NoExc, val |-> IntLiteralValue(text)]
    ELSE [exc |-> Exc("ValueError", "invalid literal for int()"), val |-> 0]

\* the length of the run of digits that s starts with
DigitRun(s) ==
    LET I == {i \in 1..Len(s) : ~IsAsciiDigit(s[i])}
    IN  IF I = {} THEN Len(s) ELSE (CHOOSE i \in I : \A j \in I : i <= j) - 1

\* the exponent e [sign] digits behind a mantissa, or nothing: [ok, exp]
\* (an exponent beyond 10^8 is as good as 10^8)
FloatExponent(r) ==
    LET Capped(e) == IF e > 100000000 THEN 100000000 ELSE e
    IN  IF r = <<>> THEN [ok |-> TRUE, exp |-> 0]
        ELSE IF r[1] \notin {101, 69} THEN [ok |-> FALSE, exp |-> 0]
        ELSE CHOOSE x \in
                 {IF digits # <<>> /\ DigitRun(digits) = Len(digits)
                  THEN [ok |-> TRUE,
                        exp |-> (IF r[2] = 45 THEN 0 - 1 ELSE 1)
                                * Capped(DigitsValue(digits, 0))]
                  ELSE [ok |-> FALSE, exp |-> 0] :
                  digits \in {Unsigned(Tail(r))}} : TRUE

\* the decimal literal digits [. digits] [e [sign] digits] with a digit in
\* the mantissa: [ok, ip, fp, exp], the digits before and behind the point
\* and the exponent; n and m are the lengths of ip and fp
FloatParts(body) ==
    LET Parts(n, m, x) ==
            [ok |-> n + m > 0 /\ x.ok,
             ip |-> SubSeq(body, 1, n),
             fp |-> SubSeq(body, n + 2, n + 1 + m),
             exp |-> x.exp]
        AfterPoint(n, m) ==
            CHOOSE p \in {Parts(n, m, x) :
                             x \in {FloatExponent(r) :
                                      r \in {SubSeq(body, n + m + 2, Len(body))}}} : TRUE
        AfterInt(n) ==
            IF n < Len(body) /\ body[n + 1] = 46
            THEN CHOOSE p \in {AfterPoint(n, m) :
                                  m \in {DigitRun(SubSeq(body, n + 2, Len(body)))}} : TRUE
            ELSE CHOOSE p \in {Parts(n, 0, x) :
                                  x \in {FloatExponent(r) :
                                           r \in {SubSeq(body, n + 1, Len(body))}}} : TRUE
    IN  CHOOSE p \in {AfterInt(n) : n \in {DigitRun(body)}} : TRUE

\* the digits behind the point of x / 2^j, given those of x, for j in 1..9:
\* long division, where the remainder left by the digits before position i
\* is that of the number written by the last j of them, 10^j being a
\* multiple of 2^j
DivPow2(F, j) ==
    LET RECURSIVE Window(_, _)
        Window(i, k) ==
            IF k = 0 THEN 0
            ELSE Window(i - 1, k - 1) * 10 + (IF i >= 1 /\ i <= Len(F) THEN F[i] ELSE 0)
    IN  [i \in 1..(Len(F) + j) |->
            ((Window(i - 1, j) % (2 ^ j)) * 10
             + (IF i <= Len(F) THEN F[i] ELSE 0)) \div (2 ^ j)] \o <<>>

\* the digits behind the point of 2^-n, n >= 1
RECURSIVE HalfPow(_)
HalfPow(n) ==
    IF n = 1 THEN <<5>>
    ELSE IF n <= 10 THEN DivPow2(<<5>>, n - 1)
    ELSE CHOOSE h \in {DivPow2(g, 9) : g \in {HalfPow(n - 9)}} : TRUE

\* half of the smallest double above 0: 2^-1075 is 5^1075 / 10^1075, that is
\* 323 zeros behind the point and then the 752 digits of 5^1075
HalfMinDoubleDigits ==
    <<2, 4, 7, 0, 3, 2, 8, 2, 2, 9, 2, 0, 6, 2, 3, 2, 7, 2, 0, 8, 8, 2,
      8, 4, 3, 9, 6, 4, 3, 4, 1, 1, 0, 6, 8, 6, 1, 8, 2, 5, 2, 9, 9, 0,
      1, 3, 0, 7, 1, 6, 2, 3, 8, 2, 2, 1, 2, 7, 9, 2, 8, 4, 1, 2, 5, 0,
      3, 3, 7, 7, 5, 3, 6, 3, 5, 1, 0, 4, 3, 7, 5, 9, 3, 2, 6, 4, 9, 9,
      1, 8, 1, 8, 0, 8, 1, 7, 9, 9, 6, 1, 8, 9, 8, 9, 8, 2, 8, 2, 3, 4,
      7, 7, 2, 2, 8, 5, 8, 8, 6, 5, 4, 6, 3, 3, 2, 8, 3, 5, 5, 1, 7, 7,
      9, 6, 9, 8, 9, 8, 1, 9, 9, 3, 8, 7, 3, 9, 8, 0, 0, 5, 3, 9, 0, 9,
      3, 9, 0, 6, 3, 1, 5, 0, 3, 5, 6, 5, 9, 5, 1, 5, 5, 7, 0, 2, 2, 6,
      3, 9, 2, 2, 9, 0, 8, 5, 8, 3, 9, 2, 4, 4, 9, 1, 0, 5, 1, 8, 4, 4,
      3, 5, 9, 3, 1, 8, 0, 2, 8, 4, 9, 9, 3, 6, 5, 3, 6, 1, 5, 2, 5, 0,
      0, 3, 1, 9, 3, 7, 0, 4, 5, 7, 6, 7, 8, 2, 4, 9, 2, 1, 9, 3, 6, 5,
      6, 2, 3, 6, 6, 9, 8, 6, 3, 6, 5, 8, 4, 8, 0, 7, 5, 7, 0, 0, 1, 5,
      8, 5, 7, 6, 9, 2, 6, 9, 9, 0, 3, 7, 0, 6, 3, 1, 1, 9, 2, 8, 2, 7,
      9, 5, 5, 8, 5, 5, 1, 3, 3, 2, 9, 2, 7, 8, 3, 4, 3, 3, 8, 4, 0, 9,
      3, 5, 1, 9, 7, 8, 0, 1, 5, 5, 3, 1, 2, 4, 6, 5, 9, 7, 2, 6, 3, 5,
      7, 9, 5, 7, 4, 6, 2, 2, 7, 6, 6, 4, 6, 5, 2, 7, 2, 8, 2, 7, 2, 2,
      0, 0, 5, 6, 3, 7, 4, 0, 0, 6, 4, 8, 5, 4, 9, 9, 9, 7, 7, 0, 9, 6,
      5, 9, 9, 4, 7, 0, 4, 5, 4, 0, 2, 0, 8, 2, 8, 1, 6, 6, 2, 2, 6, 2,
      3, 7, 8, 5, 7, 3, 9, 3, 4, 5, 0, 7, 3, 6, 3, 3, 9, 0, 0, 7, 9, 6,
      7, 7, 6, 1, 9, 3, 0, 5, 7, 7, 5, 0, 6, 7, 4, 0, 1, 7, 6, 3, 2, 4,
      6, 7, 3, 6, 0, 0, 9, 6, 8, 9, 5, 1, 3, 4, 0, 5, 3, 5, 5, 3, 7, 4,
      5, 8, 5, 1, 6, 6, 6, 1, 1, 3, 4, 2, 2, 3, 7, 6, 6, 6, 7, 8, 6, 0,
      4, 1, 6, 2, 1, 5, 9, 6, 8, 0, 4, 6, 1, 9, 1, 4, 4, 6, 7, 2, 9, 1,
      8, 4, 0, 3, 0, 0, 5, 3, 0, 0, 5, 7, 5, 3, 0, 8, 4, 9, 0, 4, 8, 7,
      6, 5, 3, 9, 1, 7, 1, 1, 3, 8, 6, 5, 9, 1, 6, 4, 6, 2, 3, 9, 5, 2,
      4, 9, 1, 2, 6, 2, 3, 6, 5, 3, 8, 8, 1, 8, 7, 9, 6, 3, 6, 2, 3, 9,
      3, 7, 3, 2, 8, 0, 4, 2, 3, 8, 9, 1, 0, 1, 8, 6, 7, 2, 3, 4, 8, 4,
      9, 7, 6, 6, 8, 2, 3, 5, 0, 8, 9, 8, 6, 3, 3, 8, 8, 5, 8, 7, 9, 2,
      5, 6, 2, 8, 3, 0, 2, 7, 5, 5, 9, 9, 5, 6, 5, 7, 5, 2, 4, 4, 5, 5,
      5, 0, 7, 2, 5, 5, 1, 8, 9, 3, 1, 3, 6, 9, 0, 8, 3, 6, 2, 5, 4, 7,
      7, 9, 1, 8, 6, 9, 4, 8, 6, 6, 7, 9, 9, 4, 9, 6, 8, 3, 2, 4, 0, 4,
      9, 7, 0, 5, 8, 2, 1, 0, 2, 8, 5, 1, 3, 1, 8, 5, 4, 5, 1, 3, 9, 6,
      2, 1, 3, 8, 3, 7, 7, 2, 2, 8, 2, 6, 1, 4, 5, 4, 3, 7, 6, 9, 3, 4,
      1, 2, 5, 3, 2, 0, 9, 8, 5, 9, 1, 3, 2, 7, 6, 6, 7, 2, 3, 6, 3, 2,
      8, 1, 2, 5>>

\* A float is [cls, n]: "int" is the integer n, "frac" a number strictly
\* between n and n + 1, "above" a number (or inf) above every integer of the
\* model, "below" one (or -inf) below every integer of the model, "nan" nan.
\*
\* The double nearest to 0.d1..dn * 10^P (d1 and dn not 0), ties to even.
\* A double next to an integer N of the model, 2^k <= N < 2^(k+1), is
\* 2^(k-52) away from it, so N is the nearest double up to 2^(k-53) on either
\* side; below 1 the doubles next to 1 and 0 are 1 - 2^-53 and 2^-1074.
\* Beyond 10 digits before the point the number is above the integers of the
\* model.
NearestDouble(neg, D, P) ==
    LET Big == [cls |-> IF neg THEN "below" ELSE "above", n |-> 0]
        AsInt(N) == [cls |-> "int", n |-> IF neg THEN 0 - N ELSE N]
        AsFrac(N) == [cls |-> "frac", n |-> IF neg THEN 0 - N - 1 ELSE N]
        \* 0.F <= 0.G for digit strings F and G
        DecLeq(F, G) ==
            \A i \in 1..Len(F) :
                (\A j \in 1..(i - 1) : F[j] = (IF j <= Len(G) THEN G[j] ELSE 0))
                => F[i] <= (IF i <= Len(G) THEN G[i] ELSE 0)
        \* the digits of 1 - 0.F, for F that ends with a digit other than 0
        Complement(F) ==
            [i \in 1..Len(F) |-> IF i = Len(F) THEN 10 - F[i] ELSE 9 - F[i]]
        RECURSIVE Log2Floor(_)
        Log2Floor(N) == IF N < 2 THEN 0 ELSE 1 + Log2Floor(N \div 2)
        \* N + 0.F with F not empty, h the digits of 2^(k-53)
        Near(N, F, h) ==
            IF DecLeq(F, h) THEN AsInt(N)
            ELSE IF \E c \in {Complement(F)} : DecLeq(c, h)
            THEN (IF N = LargestInt THEN Big ELSE AsInt(N + 1))
            ELSE AsFrac(N)
        \* the P digits ID before the point, F behind it
        Split(ID, F) ==
            IF P = 10 /\ ( \/ DigitsValue(SubSeq(ID, 1, 9), 0) > 214748364
                           \/ /\ DigitsValue(SubSeq(ID, 1, 9), 0) = 214748364
                              /\ ID[10] > 48 + 7 )
            THEN Big
            ELSE IF F = <<>> THEN AsInt(DigitsValue(ID, 0))
            ELSE CHOOSE r \in
                     {Near(N, F, h) :
                         N \in {DigitsValue(ID, 0)},
                         h \in {HalfPow(k) :
                                  k \in {53 - Log2Floor(DigitsValue(ID, 0))}}} : TRUE
    IN
    IF P > 10 THEN Big
    ELSE IF P < 0 - 323 THEN AsInt(0)
    ELSE IF P = 0 - 323
    THEN (IF DecLeq(D, HalfMinDoubleDigits) THEN AsInt(0) ELSE AsFrac(0))
    ELSE IF P < 0 THEN AsFrac(0)
    ELSE IF P = 0
    THEN (IF \E c \in {Complement(D)}, h \in {HalfPow(54)} : DecLeq(c, h)
          THEN AsInt(1) ELSE AsFrac(0))
    ELSE CHOOSE r \in
             {Split(ID, F) :
                 ID \in {[i \in 1..P |-> IF i <= Len(D) THEN D[i] + 48 ELSE 48]},
                 F \in {SubSeq(D, P + 1, Len(D))}} : TRUE

\* float(text): [exc, val]; white space, an optional sign, then inf,
\* infinity or nan in any case, or a decimal literal, with single underscores
\* between digits; any other text raises ValueError
PyFloat(text) ==
    LET Error == [exc |-> Exc("ValueError", "could not convert string to float"),
                  val |-> [cls |-> "nan", n |-> 0]]
        Return(val) == [exc |-> NoExc, val |-> val]
        \* the digits all of the mantissa, the point behind the first P of
        \* them; lo and hi the first and the last digit other than 0
        Mantissa(neg, all, P) ==
            IF \A i \in 1..Len(all) : all[i] = 48
            THEN Return([cls |-> "int", n |-> 0])
            ELSE CHOOSE r \in
                     {Return(NearestDouble(neg, D, P - (lo - 1))) :
                         D \in {[i \in 1..(hi - lo + 1) |-> all[lo + i - 1] - 48] :
                                  lo \in {i \in 1..Len(all) :
                                             /\ all[i] # 48
                                             /\ \A j \in 1..(i - 1) : all[j] = 48},
                                  hi \in {i \in 1..Len(all) :
                                             /\ all[i] # 48
                                             /\ \A j \in (i + 1)..Len(all) : all[j] = 48}},
                         lo \in {i \in 1..Len(all) :
                                    /\ all[i] # 48
                                    /\ \A j \in 1..(i - 1) : all[j] = 48}} : TRUE
        Literal(neg, p) ==
            IF ~p.ok THEN Error
            ELSE CHOOSE r \in {Mantissa(neg, all, Len(p.ip) + p.exp) :
                                  all \in {p.ip \o p.fp}} : TRUE
        Body(neg, lower) ==
            IF lower = <<105, 110, 102>>                                  \* inf
               \/ lower = <<105, 110, 102, 105, 110, 105, 116, 121>>      \* infinity
            THEN Return([cls |-> IF neg THEN "below" ELSE "above", n |-> 0])
            ELSE IF lower = <<110, 97, 110>>                              \* nan
            THEN Return([cls |-> "nan", n |-> 0])
            ELSE CHOOSE r \in {Literal(neg, p) : p \in {FloatParts(lower)}} : TRUE
        Stripped(s) ==
            CHOOSE r \in
                {Body(s # <<>> /\ s[1] = 45, lower) :
                    lower \in {[i \in 1..Len(u) |->
                                   IF u[i] >= 65 /\ u[i] <= 90 THEN u[i] + 32 ELSE u[i]] :
                               u \in {Unsigned(s)}}} : TRUE
        Ascii(t) ==
            IF ~UnderscoresOk(t) THEN Error
            ELSE CHOOSE r \in {Stripped(s) :
                                  s \in {Strip(SelectSeq(t, LAMBDA c : c # 95))}} : TRUE
    IN  CHOOSE r \in {Ascii(t) : t \in {ToAscii(text)}} : TRUE

\* a condition's value: a str (literal or template) or a sequence of str
StrValue(s) == [t |-> "str", v |-> s]
ListValue(l) == [t |-> "list", v |-> l]

\* A template is a sequence of parts: literal text, or a reference to a pool
\* variable that is replaced by that variable's text.
Lit(s) == << [sel |-> None, text |-> s] >>
Ref(name) == << [sel |-> name, text |-> <<>>] >>

\* the text of the pool variables that templates refer to
TemplateTexts == [arg |-> S_ab, num |-> S_2]

\* variable_pool.convert_template(template).text
RECURSIVE convert_template(_)
convert_template(template) ==
    IF template = <<>> THEN <<>>
    ELSE (IF Head(template).sel = None THEN Head(template).text
          ELSE TemplateTexts[Head(template).sel])
         \o convert_template(Tail(template))

-----------------------------------------------------------------------------
(* node.py 289-330: the comparison closures, applied to x *)

_contains(value, x) ==
    \E i \in 0..(Len(x) - Len(value)) : SubSeq(x, i + 1, i + Len(value)) = value

_startswith(value, x) ==
    Len(value) <= Len(x) /\ SubSeq(x, 1, Len(value)) = value

_endswith(value, x) ==
    Len(value) <= Len(x) /\ SubSeq(x, Len(x) - Len(value) + 1, Len(x)) = value

_is(value, x) == x = value

\* (mutant) a str operand is split at its commas and x is looked up among the
\* alternatives
_in_SplitAlternatives(value, x) ==
    IF value.t = "str"
    THEN /\ \A i \in 1..Len(x) : x[i] # 44
         /\ _contains(<<44>> \o x \o <<44>>, <<44>> \o value.v \o <<44>>)
    ELSE \E i \in 1..Len(value.v) : value.v[i] = x

\* x in value: a substring test when value is a str, membership when a list
_in(value, x) ==
    IF value.t = "str" THEN _contains(x, value.v)
    ELSE \E i \in 1..Len(value.v) : value.v[i] = x

\* x OP value for an integer x and a float value (see NearestDouble)
_eq(value, x) == value.cls = "int" /\ x = value.n
_ne(value, x) == ~(value.cls = "int" /\ x = value.n)
_lt(value, x) ==
    CASE value.cls = "int" -> x < value.n
      [] value.cls = "frac" -> x <= value.n
      [] value.cls = "above" -> TRUE
      [] value.cls \in {"below", "nan"} -> FALSE
_le(value, x) ==
    CASE value.cls \in {"int", "frac"} -> x <= value.n
      [] value.cls = "above" -> TRUE
      [] value.cls \in {"below", "nan"} -> FALSE
_gt(value, x) ==
    CASE value.cls \in {"int", "frac"} -> x > value.n
      [] value.cls = "below" -> TRUE
      [] value.cls \in {"above", "nan"} -> FALSE
_ge(value, x) ==
    CASE value.cls = "int" -> x >= value.n
      [] value.cls = "frac" -> x > value.n
      [] value.cls = "below" -> TRUE
      [] value.cls \in {"above", "nan"} -> FALSE

-----------------------------------------------------------------------------
(* core.file.File, as far as node.py reads it *)

File(filename, extension, mime_type, remote_url, type, transfer_method, size) ==
    [filename |-> filename, extension |-> extension, mime_type |-> mime_type,
     remote_url |-> remote_url, type |-> type,
     transfer_method |-> transfer_method, size |-> size]

F_a10 == File(Some(S_a), Some(S_a), NoStr, NoStr, S_image, S_local_file, 10)
F_b20 == File(Some(S_b), Some(S_b), Some(S_ab), Some(S_ab), S_document, S_remote_url, 20)
F_n5 == File(NoStr, NoStr, NoStr, NoStr, S_image, S_local_file, 5)
F_e10 == File(Some(S_empty), Some(S_b), NoStr, Some(S_a), S_document, S_local_file, 10)

\* File.to_dict(): the fields as a dict, tagged as a file
to_dict(item) == [dify_model_identity |-> "__dify__file__", fields |-> item]

-----------------------------------------------------------------------------
(* node.py 194-217: attribute extractors.  X_exc is the exception raised by
   the call X(...) itself (None when it returns); X applied to further
   arguments is the returned closure applied to them. *)

_get_file_extract_number_func_exc(key) ==
    IF key = "size" THEN NoExc ELSE Exc("InvalidKeyError", "Invalid key")

_get_file_extract_number_func(key, x) ==
    CASE key = "size" -> x.size

_get_file_extract_string_func_exc(key) ==
    IF key \in {"name", "type", "extension", "mime_type", "transfer_method", "url"}
    THEN NoExc ELSE Exc("InvalidKeyError", "Invalid key")

_get_file_extract_string_func(key, x) ==
    CASE key = "name" -> OrEmpty(x.filename)
      [] key = "type" -> x.type
      [] key = "extension" -> OrEmpty(x.extension)
      [] key = "mime_type" -> OrEmpty(x.mime_type)
      [] key = "transfer_method" -> x.transfer_method
      [] key = "url" -> OrEmpty(x.remote_url)

-----------------------------------------------------------------------------
(* node.py 220-286: filter function factories *)

StringConditions ==
    {"contains", "start with", "end with", "is", "in", "empty",
     "not contains", "is not", "not in", "not empty"}

_get_string_filter_func_exc(condition) ==
    IF condition \in StringConditions THEN NoExc ELSE Exc("InvalidConditionError", "Invalid condition")

_get_string_filter_func(condition, value, x) ==
    CASE condition = "contains" -> _contains(value, x)
      [] condition = "start with" -> _startswith(value, x)
      [] condition = "end with" -> _endswith(value, x)
      [] condition = "is" -> _is(value, x)
      [] condition = "in" -> _in(StrValue(value), x)
      [] condition = "empty" -> x = S_empty
      [] condition = "not contains" -> ~_contains(value, x)
      [] condition = "is not" -> ~_is(value, x)
      [] condition = "not in" -> ~_in(StrValue(value), x)
      [] condition = "not empty" -> x # S_empty

_get_sequence_filter_func_exc(condition) ==
    IF condition \in {"in", "not in"} THEN NoExc ELSE Exc("InvalidConditionError", "Invalid condition")

\* value is any Sequence: a list of str, or a str
_get_sequence_filter_func(condition, value, x) ==
    CASE condition = "in" -> _in(value, x)
      [] condition = "not in" -> ~_in(value, x)

NumberConditions == {"=", "!=", "<", "<=", ">", ">="}

_get_number_filter_func_exc(condition) ==
    IF condition \in NumberConditions THEN NoExc ELSE Exc("InvalidConditionError", "Invalid condition")

_get_number_filter_func(condition, value, x) ==
    CASE condition = "=" -> _eq(value, x)
      [] condition = "!=" -> _ne(value, x)
      [] condition = "<" -> _lt(value, x)
      [] condition = "<=" -> _le(value, x)
      [] condition = ">" -> _gt(value, x)
      [] condition = ">=" -> _ge(value, x)

\* which branch of _get_file_filter_func is taken; a str is a Sequence too
FileFilterBranch(key, value) ==
    IF key \in {"name", "extension", "mime_type", "url"} /\ value.t = "str"
    THEN "string"
    ELSE IF key \in {"type", "transfer_method"} THEN "sequence"
    ELSE IF key = "size" /\ value.t = "str" THEN "number"
    ELSE "invalid"

_get_file_filter_func_exc(key, value) ==
    IF FileFilterBranch(key, value) = "invalid" THEN Exc("InvalidKeyError", "Invalid key") ELSE NoExc

\* the lambda returned by _get_file_filter_func applied to x: [exc, keep].
\* The operator is looked up, and a size operand parsed, at each application.
_get_file_filter_func(key, condition, value, x) ==
    LET branch == FileFilterBranch(key, value) IN
    CASE branch = "string" ->
           IF _get_string_filter_func_exc(condition) # NoExc
           THEN [exc |-> _get_string_filter_func_exc(condition), keep |-> FALSE]
           ELSE [exc |-> NoExc,
                 keep |-> _get_string_filter_func(condition, value.v,
                              _get_file_extract_string_func(key, x))]
      [] branch = "sequence" ->
           IF _get_sequence_filter_func_exc(condition) # NoExc
           THEN [exc |-> _get_sequence_filter_func_exc(condition), keep |-> FALSE]
           ELSE [exc |-> NoExc,
                 keep |-> _get_sequence_filter_func(condition, value,
                              _get_file_extract_string_func(key, x))]
      [] branch = "number" ->
           IF PyFloat(value.v).exc # NoExc
           THEN [exc |-> PyFloat(value.v).exc, keep |-> FALSE]
           ELSE IF _get_number_filter_func_exc(condition) # NoExc
           THEN [exc |-> _get_number_filter_func_exc(condition), keep |-> FALSE]
           ELSE [exc |-> NoExc,
                 keep |-> _get_number_filter_func(condition, PyFloat(value.v).val,
                              _get_file_extract_number_func(key, x))]

\* (mutant) rejected elements removed from the list while it is walked, so
\* the element behind a removed one is never tested
RECURSIVE KeepWhere_RemoveWhileIterating(_, _)
KeepWhere_RemoveWhileIterating(array, results) ==
    IF array = <<>> THEN <<>>
    ELSE IF Head(results).keep
    THEN <<Head(array)>> \o KeepWhere_RemoveWhileIterating(Tail(array), Tail(results))
    ELSE IF Tail(array) = <<>> THEN <<>>
    ELSE <<Head(Tail(array))>>
         \o KeepWhere_RemoveWhileIterating(Tail(Tail(array)), Tail(Tail(results)))

\* list(filter(f, array)) given f's outcome on each element, results[i] =
\* [exc, keep]: the first application that raises ends the call
RECURSIVE KeepWhere(_, _)
KeepWhere(array, results) ==
    IF array = <<>> THEN <<>>
    ELSE (IF Head(results).keep THEN <<Head(array)>> ELSE <<>>)
         \o KeepWhere(Tail(array), Tail(results))

PyFilter(array, results) ==
    IF \E i \in 1..Len(array) : results[i].exc # NoExc
    THEN LET first == CHOOSE i \in 1..Len(array) :
                         /\ results[i].exc # NoExc
                         /\ \A j \in 1..(i - 1) : results[j].exc = NoExc
         IN  [exc |-> results[first].exc, val |-> <<>>]
    ELSE [exc |-> NoExc, val |-> KeepWhere(array, results)]

-----------------------------------------------------------------------------
(* sorted(array, key=..., reverse=...) *)

KeyLess(numeric, a, b) == IF numeric THEN a < b ELSE StrLess(a, b)

Reverse(s) == [i \in 1..Len(s) |-> s[Len(s) + 1 - i]]

\* (mutant) p goes in front of the pairs with an equal key
RECURSIVE InsertStable_BeforeEqual(_, _, _)
InsertStable_BeforeEqual(numeric, p, sorted) ==
    IF sorted = <<>> THEN <<p>>
    ELSE IF ~KeyLess(numeric, Head(sorted).key, p.key) THEN <<p>> \o sorted
    ELSE <<Head(sorted)>> \o InsertStable_BeforeEqual(numeric, p, Tail(sorted))

\* insert p behind every pair whose key is not greater than p's
RECURSIVE InsertStable(_, _, _)
InsertStable(numeric, p, sorted) ==
    IF sorted = <<>> THEN <<p>>
    ELSE IF KeyLess(numeric, p.key, Head(sorted).key) THEN <<p>> \o sorted
    ELSE <<Head(sorted)>> \o InsertStable(numeric, p, Tail(sorted))

RECURSIVE StableSort(_, _)
StableSort(numeric, pairs) ==
    IF pairs = <<>> THEN <<>>
    ELSE InsertStable(numeric, pairs[Len(pairs)],
                      StableSort(numeric, SubSeq(pairs, 1, Len(pairs) - 1)))

\* (mutant) descending order got by reversing the ascending outcome
ListSort_ReverseAfter(numeric, pairs, reverse) ==
    IF reverse THEN Reverse(StableSort(numeric, pairs))
    ELSE StableSort(numeric, pairs)

\* list.sort with reverse=True reverses the list, sorts it stably and
\* reverses the outcome, which keeps equal keys in their original order
ListSort(numeric, pairs, reverse) ==
    IF reverse THEN Reverse(StableSort(numeric, Reverse(pairs)))
    ELSE StableSort(numeric, pairs)

\* keys[i] is key(array[i])
PySorted(numeric, keys, array, reverse) ==
    LET pairs == [i \in 1..Len(array) |-> [key |-> keys[i], item |-> array[i]]]
        out == ListSort(numeric, pairs, reverse)
    IN  [i \in 1..Len(array) |-> out[i].item]

\* node.py 333-350
_order_number(order, array) ==
    [exc |-> NoExc, val |-> PySorted(TRUE, array, array, order = "desc")]

_order_string(order, array) ==
    [exc |-> NoExc, val |-> PySorted(FALSE, array, array, order = "desc")]

\* (mutant) an unknown key leaves the array as it is
_order_file_KeyUnchecked(order, order_by, array) ==
    IF order_by \in {"name", "type", "extension", "mime_type", "transfer_method", "url"}
    THEN [exc |-> NoExc,
          val |-> PySorted(FALSE,
                     [i \in 1..Len(array) |->
                        _get_file_extract_string_func(order_by, array[i])],
                     array, order = "desc")]
    ELSE IF order_by = "size"
    THEN [exc |-> NoExc,
          val |-> PySorted(TRUE,
                     [i \in 1..Len(array) |->
                        _get_file_extract_number_func(order_by, array[i])],
                     array, order = "desc")]
    ELSE [exc |-> NoExc, val |-> array]

_order_file(order, order_by, array) ==
    IF order_by \in {"name", "type", "extension", "mime_type", "transfer_method", "url"}
    THEN [exc |-> NoExc,
          val |-> PySorted(FALSE,
                     [i \in 1..Len(array) |->
                        _get_file_extract_string_func(order_by, array[i])],
                     array, order = "desc")]
    ELSE IF order_by = "size"
    THEN [exc |-> NoExc,
          val |-> PySorted(TRUE,
                     [i \in 1..Len(array) |->
                        _get_file_extract_number_func(order_by, array[i])],
                     array, order = "desc")]
    ELSE [exc |-> Exc("InvalidKeyError", "Invalid order key"), val |-> <<>>]

-----------------------------------------------------------------------------
(* Segments *)

ArrayKinds == {"array[file]", "array[number]", "array[string]", "array[any]",
               "array[object]"}

Segment(kind, value) == [kind |-> kind, value |-> value]

\* (mutant) the new value wrapped in a fresh segment of kind any
model_copy_AsAny(var, value) == Segment("array[any]", value)

\* variable.model_copy(update={"value": value})
model_copy(var, value) == [var EXCEPT !.value = value]

\* (mutant) only a missing value counts as empty
Truthy_NotNone(var) == var.kind # "none"

\* (mutant) only an array can count as empty
Truthy_ArraysOnly(var) ==
    IF var.kind \in ArrayKinds THEN var.value # <<>> ELSE TRUE

\* bool(variable.value)
Truthy(var) ==
    CASE var.kind \in ArrayKinds \cup {"string"} -> var.value # <<>>
      [] var.kind = "number" -> var.value # 0
      [] var.kind = "none" -> FALSE

\* (mutant) index -1 where 0 is meant
first_record_Last(var) ==
    IF var.value # <<>> THEN <<var.value[Len(var.value)]>> ELSE NoRecord

\* node.py 107: variable.value[0] if variable.value else None
first_record(var) == IF var.value # <<>> THEN <<var.value[1]>> ELSE NoRecord

\* (mutant) index 0 where -1 is meant
last_record_First(var) == IF var.value # <<>> THEN <<var.value[1]>> ELSE NoRecord

\* node.py 108: variable.value[-1] if variable.value else None
last_record(var) ==
    IF var.value # <<>> THEN <<var.value[Len(var.value)]>> ELSE NoRecord

\* (mutant) the bound taken as an index that is still included
PySlicePrefix_Inclusive(seq, size) ==
    SubSeq(seq, 1, IF size + 1 < Len(seq) THEN size + 1 ELSE Len(seq))

\* seq[:size]
PySlicePrefix(seq, size) ==
    IF size >= 0
    THEN SubSeq(seq, 1, IF size < Len(seq) THEN size ELSE Len(seq))
    ELSE SubSeq(seq, 1, IF Len(seq) + size > 0 THEN Len(seq) + size ELSE 0)

-----------------------------------------------------------------------------
(* node.py 125-191: the stages.  Each returns [exc, val]: the exception it
   raises, or the segment it returns. *)

\* one iteration of the loop of _apply_filter (node.py 131-156)
_apply_filter_condition(var, condition) ==
    LET array == var.value
        chk(exc, results) ==
            IF exc # NoExc THEN [exc |-> exc, val |-> var]
            ELSE CHOOSE res \in
                     {IF r.exc # NoExc THEN [exc |-> r.exc, val |-> var]
                      ELSE [exc |-> NoExc, val |-> model_copy(var, r.val)] :
                      r \in {PyFilter(array, results)}} : TRUE
    IN
    CASE var.kind = "array[string]" ->
           IF condition.value.t # "str"
           THEN [exc |-> Exc("InvalidFilterValueError", "Invalid filter value"),
                 val |-> var]
           ELSE LET value == convert_template(condition.value.v) IN
                chk(_get_string_filter_func_exc(condition.comparison_operator),
                    [i \in 1..Len(array) |->
                       [exc |-> NoExc,
                        keep |-> _get_string_filter_func(
                                    condition.comparison_operator, value, array[i])]])
      [] var.kind = "array[number]" ->
           IF condition.value.t # "str"
           THEN [exc |-> Exc("InvalidFilterValueError", "Invalid filter value"),
                 val |-> var]
           ELSE CHOOSE res \in
                    {IF value.exc # NoExc THEN [exc |-> value.exc, val |-> var]
                     ELSE chk(_get_number_filter_func_exc(condition.comparison_operator),
                              [i \in 1..Len(array) |->
                                 [exc |-> NoExc,
                                  keep |-> _get_number_filter_func(
                                              condition.comparison_operator, value.val,
                                              array[i])]]) :
                     value \in {PyFloat(convert_template(condition.value.v))}} : TRUE
      [] var.kind = "array[file]" ->
           LET value == IF condition.value.t = "str"
                        THEN StrValue(convert_template(condition.value.v))
                        ELSE condition.value
           IN  chk(_get_file_filter_func_exc(condition.key, value),
                   [i \in 1..Len(array) |->
                      _get_file_filter_func(condition.key,
                          condition.comparison_operator, value, array[i])])

\* (mutant) every condition filters the array that was passed in, so only the
\* last condition decides
RECURSIVE _apply_filter_loop_Original(_, _)
_apply_filter_loop_Original(var, conditions) ==
    IF conditions = <<>> THEN [exc |-> NoExc, val |-> var]
    ELSE CHOOSE res \in
             {IF r.exc # NoExc \/ Tail(conditions) = <<>> THEN r
              ELSE _apply_filter_loop_Original(var, Tail(conditions)) :
              r \in {_apply_filter_condition(var, Head(conditions))}} : TRUE

RECURSIVE _apply_filter_loop(_, _)
_apply_filter_loop(var, conditions) ==
    IF conditions = <<>> THEN [exc |-> NoExc, val |-> var]
    ELSE CHOOSE res \in
             {IF r.exc # NoExc THEN r
              ELSE _apply_filter_loop(r.val, Tail(conditions)) :
              r \in {_apply_filter_condition(var, Head(conditions))}} : TRUE

\* a call that raises assigns nothing in its caller: val is the argument
_apply_filter(var, nd) ==
    CHOOSE res \in
        {IF r.exc # NoExc THEN [exc |-> r.exc, val |-> var] ELSE r :
         r \in {_apply_filter_loop(var, nd.filter_by.conditions)}} : TRUE

_apply_order(var, nd) ==
    LET r == CASE var.kind = "array[string]" ->
                    _order_string(nd.order_by.value, var.value)
               [] var.kind = "array[number]" ->
                    _order_number(nd.order_by.value, var.value)
               [] var.kind = "array[file]" ->
                    _order_file(nd.order_by.value, nd.order_by.key, var.value)
    IN  [exc |-> r.exc, val |-> IF r.exc = NoExc THEN model_copy(var, r.val) ELSE var]

_apply_slice(var, nd) ==
    [exc |-> NoExc, val |-> model_copy(var, PySlicePrefix(var.value, nd.limit.size))]

\* (mutant) the serial used as an index without the decrement
_extract_slice_NoDecrement(var, nd) ==
    LET value == PyInt(convert_template(nd.extract_by.serial)) IN
    IF value.exc # NoExc THEN [exc |-> value.exc, val |-> var]
    ELSE IF value.val < 1
    THEN [exc |-> Exc("ValueError", "Invalid serial index: must be >= 1"), val |-> var]
    ELSE IF value.val > Len(var.value)
    THEN [exc |-> Exc("InvalidKeyError", "Invalid serial index: must be <= len"),
          val |-> var]
    ELSE IF value.val + 1 > Len(var.value)
    THEN [exc |-> Exc("IndexError", "list index out of range"), val |-> var]
    ELSE [exc |-> NoExc, val |-> model_copy(var, <<var.value[value.val + 1]>>)]

\* (mutant) both bounds checked with the typed error
_extract_slice_AllTyped(var, nd) ==
    LET value == PyInt(convert_template(nd.extract_by.serial)) IN
    IF value.exc # NoExc THEN [exc |-> value.exc, val |-> var]
    ELSE IF value.val < 1
    THEN [exc |-> Exc("InvalidKeyError", "Invalid serial index: must be >= 1"),
          val |-> var]
    ELSE IF value.val > Len(var.value)
    THEN [exc |-> Exc("InvalidKeyError", "Invalid serial index: must be <= len"),
          val |-> var]
    ELSE [exc |-> NoExc, val |-> model_copy(var, <<var.value[(value.val - 1) + 1]>>)]

_extract_slice(var, nd) ==
    LET value == PyInt(convert_template(nd.extract_by.serial)) IN
    IF value.exc # NoExc THEN [exc |-> value.exc, val |-> var]
    ELSE IF value.val < 1
    THEN [exc |-> Exc("ValueError", "Invalid serial index: must be >= 1"), val |-> var]
    ELSE IF value.val > Len(var.value)
    THEN [exc |-> Exc("InvalidKeyError", "Invalid serial index: must be <= len"),
          val |-> var]
    ELSE [exc |-> NoExc, val |-> model_copy(var, <<var.value[(value.val - 1) + 1]>>)]

-----------------------------------------------------------------------------
(* ListOperatorNodeData and NodeRunResult *)

Condition(key, comparison_operator, value) ==
    [key |-> key, comparison_operator |-> comparison_operator, value |-> value]

FilterBy(enabled, conditions) == [enabled |-> enabled, conditions |-> conditions]
ExtractBy(enabled, serial) == [enabled |-> enabled, serial |-> serial]
OrderBy(enabled, key, value) == [enabled |-> enabled, key |-> key, value |-> value]
Limit(enabled, size) == [enabled |-> enabled, size |-> size]

NodeData(filter_by, extract_by, order_by, limit) ==
    [filter_by |-> filter_by, extract_by |-> extract_by, order_by |-> order_by,
     limit |-> limit]

\* a dict is a function from its keys
EmptyDict == [k \in {} |-> None]

NodeRunResult(status, error, ins, pdata, outs) ==
    [status |-> status, error |-> error, inputs |-> ins, process_data |-> pdata,
     outputs |-> outs]

NotReturned == NodeRunResult("none", "", EmptyDict, EmptyDict, EmptyDict)

\* the exception classes of exc.py that derive from ListOperatorError
ListOperatorErrors ==
    {"InvalidFilterValueError", "InvalidKeyError", "InvalidConditionError"}

-----------------------------------------------------------------------------
(* Inputs *)

SeqsUpTo(S, n) == UNION {[1..k -> S] : k \in 0..n}

\* the decimal text of a one-digit number
DigitText(n) == <<48 + n>>

Numbers == {1, 2, 3}
Strings == {S_empty, S_a, S_ab}
Files == {F_a10, F_b20, F_n5, F_e10}

RunNumbers == {1, 2, 3}
RunStrings == {S_empty, S_a, S_ab}
RunFiles == {F_a10, F_n5, F_e10}

\* conditions of a whole run: a valid one, one with an operator of another
\* kind, one whose operand is no number / no str / whose key is unknown
RunNumberConditions ==
    {Condition("", ">", StrValue(Lit(S_1))),
     Condition("", "!=", StrValue(Lit(S_2))),
     Condition("", "contains", StrValue(Lit(S_1))),
     Condition("", "=", StrValue(Lit(S_x))),
     Condition("", "<", StrValue(Lit(<<49, 46, 53>>)))}     \* "1.5"
RunStringConditions ==
    {Condition("", "contains", StrValue(Lit(S_a))),
     Condition("", "empty", StrValue(Lit(S_empty))),
     Condition("", "=", StrValue(Lit(S_a))),
     Condition("", "in", ListValue(<<S_a>>))}
RunFileConditions ==
    {Condition("name", "not empty", StrValue(Lit(S_empty))),
     Condition("size", ">", StrValue(Lit(S_5))),
     Condition("size", "contains", StrValue(Lit(S_x))),
     Condition("path", "is", StrValue(Lit(S_a)))}

\* a switched-off stage keeps one configuration that would change the array
RunFilterBys(conds) ==
    {FilterBy(FALSE, <<c>>) : c \in {CHOOSE c \in conds : TRUE}}
    \cup {FilterBy(TRUE, cs) : cs \in SeqsUpTo(conds, 1)}
RunExtractBys ==
    {ExtractBy(FALSE, Lit(S_2))}
    \cup {ExtractBy(TRUE, Lit(DigitText(n))) : n \in 0..(RunMaxLen + 1)}
    \cup {ExtractBy(TRUE, Lit(S_x)), ExtractBy(TRUE, Lit(S_m1)),
          ExtractBy(TRUE, Lit(<<32, 50>>))}                     \* " 2"
RunOrderBys(keys) ==
    {OrderBy(FALSE, CHOOSE k \in keys : TRUE, "desc")}
    \cup {OrderBy(TRUE, k, v) : k \in keys, v \in {"asc", "desc"}}
RunLimits ==
    {Limit(FALSE, 0)} \cup {Limit(TRUE, n) : n \in (0 - 1)..(RunMaxLen + 1)}

RunNodeData(conds, keys) ==
    {NodeData(f, e, o, l) : f \in RunFilterBys(conds), e \in RunExtractBys,
                            o \in RunOrderBys(keys), l \in RunLimits}

\* segments that are no array of files, numbers or strings
OtherSegment(i) ==
    CASE i = 1 -> Segment("array[any]", <<>>)
      [] i = 2 -> Segment("array[any]", <<1, 2>>)
      [] i = 3 -> Segment("array[object]", <<>>)
      [] i = 4 -> Segment("array[object]", <<[a |-> 1]>>)
      [] i = 5 -> Segment("string", S_empty)
      [] i = 6 -> Segment("string", S_ab)
      [] i = 7 -> Segment("number", 0)
      [] i = 8 -> Segment("number", 2)
      [] i = 9 -> Segment("none", None)

Bound(seg) == [bound |-> TRUE, seg |-> seg]
Unbound == [bound |-> FALSE, seg |-> Segment("none", None)]

-----------------------------------------------------------------------------
(* node.py 47-123: ListOperatorNode._run *)

InitLocals ==
    /\ pc = "start"
    /\ variable = Segment("none", None)
    /\ inputs = EmptyDict
    /\ process_data = EmptyDict
    /\ run_result = NotReturned
    /\ raised = NoExc
    /\ stage_log = <<>>

Init ==
    /\ \/ /\ pool \in {Bound(Segment("array[number]", a)) :
                          a \in SeqsUpTo(RunNumbers, RunMaxLen)}
          /\ node_data \in RunNodeData(RunNumberConditions, {""})
       \/ /\ pool \in {Bound(Segment("array[string]", a)) :
                          a \in SeqsUpTo(RunStrings, RunMaxLen)}
          /\ node_data \in RunNodeData(RunStringConditions, {""})
       \/ /\ pool \in {Bound(Segment("array[file]", a)) :
                          a \in SeqsUpTo(RunFiles, RunMaxLen)}
          /\ node_data \in RunNodeData(RunFileConditions, {"size", "name", "id"})
       \/ /\ \/ \E i \in 1..9 : pool = Bound(OtherSegment(i))
             \/ pool = Unbound
          /\ node_data \in RunNodeData(RunNumberConditions, {""})
    /\ InitLocals

Call(stage, arg, r) == [stage |-> stage, arg |-> arg, ret |-> r.val, exc |-> r.exc]

\* (mutant) extract placed behind order
StageAfter_OrderFirst(at) ==
    CASE at = "filter" -> "order"
      [] at = "order" -> "extract"
      [] at = "extract" -> "limit"

\* (mutant) the try block left behind the order stage without a return
StageAfter_NoReturn(at) ==
    CASE at = "filter" -> "extract"
      [] at = "extract" -> "order"
      [] at = "order" -> "done"

\* node.py 89-103: the order of the statements of the try block
StageAfter(at) ==
    CASE at = "filter" -> "extract"
      [] at = "extract" -> "order"
      [] at = "order" -> "limit"

\* (mutant) the missing variable treated like an empty one
NotFoundResult_AsEmpty ==
    NodeRunResult("succeeded", "", EmptyDict, EmptyDict,
                  [result |-> Segment("array[any]", <<>>),
                   first_record |-> NoRecord, last_record |-> NoRecord])

\* node.py 53-57
NotFoundResult ==
    NodeRunResult("failed", "Variable not found for selector", EmptyDict, EmptyDict,
                  EmptyDict)

\* (mutant) the handler reports the array as the stages left it
Except_CurrentArray(exc) ==
    /\ pc' = "done"
    /\ IF exc.type \in ListOperatorErrors
       THEN /\ run_result' = NodeRunResult("failed", exc.msg,
                                           [variable |-> variable.value],
                                           [variable |-> variable.value], EmptyDict)
            /\ raised' = NoExc
       ELSE /\ raised' = exc
            /\ run_result' = run_result

\* an exception leaves the try block of _run (node.py 116-123)
Except(exc) ==
    /\ pc' = "done"
    /\ IF exc.type \in ListOperatorErrors
       THEN /\ run_result' = NodeRunResult("failed", exc.msg, inputs, process_data,
                                           EmptyDict)
            /\ raised' = NoExc
       ELSE /\ raised' = exc
            /\ run_result' = run_result

\* node.py 47-86
ResolveVariable ==
    /\ pc = "start"
    /\ UNCHANGED <<pool, node_data, raised, stage_log>>
    /\ IF ~pool.bound
       THEN /\ pc' = "done"
            /\ run_result' = NotFoundResult
            /\ UNCHANGED <<variable, inputs, process_data>>
       ELSE IF ~Truthy(pool.seg)
       THEN /\ pc' = "done"
            /\ variable' = pool.seg
            /\ inputs' = [variable |-> <<>>]
            /\ process_data' = [variable |-> <<>>]
            /\ run_result' =
                 NodeRunResult("succeeded", "", inputs', process_data',
                     [result |-> IF pool.seg.kind \in ArrayKinds
                                 THEN model_copy(pool.seg, <<>>)
                                 ELSE Segment("array[any]", <<>>),
                      first_record |-> NoRecord, last_record |-> NoRecord])
       ELSE IF pool.seg.kind \notin {"array[file]", "array[number]", "array[string]"}
       THEN /\ pc' = "done"
            /\ variable' = pool.seg
            /\ run_result' =
                 NodeRunResult("failed",
                     "Variable is not an ArrayFileSegment, ArrayNumberSegment or ArrayStringSegment",
                     EmptyDict, EmptyDict, EmptyDict)
            /\ UNCHANGED <<inputs, process_data>>
       ELSE /\ pc' = "filter"
            /\ variable' = pool.seg
            /\ inputs' = [variable |->
                             IF pool.seg.kind = "array[file]"
                             THEN [i \in 1..Len(pool.seg.value) |->
                                     to_dict(pool.seg.value[i])]
                             ELSE pool.seg.value]
            /\ process_data' = inputs'
            /\ UNCHANGED run_result

\* a stage of the try block: skipped when switched off, else called; its
\* exception ends the run
Stage(at, enabled, r) ==
    /\ pc = at
    /\ UNCHANGED <<pool, node_data, inputs, process_data>>
    /\ IF ~enabled
       THEN /\ pc' = StageAfter(at)
            /\ UNCHANGED <<variable, run_result, raised, stage_log>>
       ELSE /\ stage_log' = Append(stage_log, Call(at, variable, r))
            /\ IF r.exc = NoExc
               THEN /\ variable' = r.val
                    /\ pc' = StageAfter(at)
                    /\ UNCHANGED <<run_result, raised>>
               ELSE /\ Except(r.exc)
                    /\ UNCHANGED variable

\* node.py 89-91
Filter ==
    Stage("filter", node_data.filter_by.enabled, _apply_filter(variable, node_data))

\* node.py 93-95
Extract ==
    Stage("extract", node_data.extract_by.enabled, _extract_slice(variable, node_data))

\* node.py 97-99
Order ==
    Stage("order", node_data.order_by.enabled, _apply_order(variable, node_data))

\* node.py 101-115: the limit stage and the successful return
LimitAndReturn ==
    /\ pc = "limit"
    /\ pc' = "done"
    /\ UNCHANGED <<pool, node_data, inputs, process_data, raised>>
    /\ LET r == _apply_slice(variable, node_data)
           out == IF node_data.limit.enabled THEN r.val ELSE variable
       IN  /\ stage_log' = IF node_data.limit.enabled
                            THEN Append(stage_log, Call("limit", variable, r))
                            ELSE stage_log
           /\ variable' = out
           /\ run_result' =
                NodeRunResult("succeeded", "", inputs, process_data,
                    [result |-> out,
                     first_record |-> first_record(out),
                     last_record |-> last_record(out)])

Next == ResolveVariable \/ Filter \/ Extract \/ Order \/ LimitAndReturn

Spec == Init /\ [][Next]_vars

-----------------------------------------------------------------------------
(* The stages called on their own: one call of one stage method on a segment
   and a configuration, pc going from "call" to "returned". *)

NumberConditionSet ==
    {Condition("", op, StrValue(Lit(S_2))) : op \in NumberConditions}
    \cup {Condition("", ">", StrValue(Ref("num"))),
          Condition("", "is", StrValue(Lit(S_2))),
          Condition("", "<", StrValue(Lit(S_x))),
          Condition("", "=", ListValue(<<S_2>>)),
          Condition("", ">", StrValue(Lit(<<49, 46, 53>>))),    \* "1.5"
          Condition("", "=", StrValue(Lit(<<32, 50>>)))}        \* " 2"

StringConditionSet ==
    {Condition("", "contains", StrValue(Lit(S_a))),
     Condition("", "start with", StrValue(Lit(S_a))),
     Condition("", "end with", StrValue(Lit(S_b))),
     Condition("", "is", StrValue(Lit(S_ab))),
     Condition("", "in", StrValue(Ref("arg"))),
     Condition("", "empty", StrValue(Lit(S_empty))),
     Condition("", "not contains", StrValue(Lit(S_b))),
     Condition("", "is not", StrValue(Lit(S_a))),
     Condition("", "not in", StrValue(Lit(S_a))),
     Condition("", "not empty", StrValue(Lit(S_empty))),
     Condition("", ">", StrValue(Lit(S_a))),
     Condition("", "in", ListValue(<<S_a, S_ab>>))}

FileConditionSet ==
    {Condition("name", "contains", StrValue(Lit(S_a))),
     Condition("extension", "is", StrValue(Lit(S_b))),
     Condition("url", "not empty", StrValue(Lit(S_empty))),
     Condition("type", "in", ListValue(<<S_image>>)),
     Condition("transfer_method", "not in", StrValue(Lit(S_remote_url))),
     Condition("size", ">", StrValue(Lit(S_5))),
     Condition("size", "=", StrValue(Lit(S_10))),
     Condition("path", "is", StrValue(Lit(S_a))),
     Condition("name", "in", ListValue(<<S_a>>)),
     Condition("name", "<", StrValue(Lit(S_a))),
     Condition("type", "is", ListValue(<<S_image>>)),
     Condition("size", "<", StrValue(Lit(S_x))),
     Condition("size", ">=", StrValue(Lit(<<49, 101, 49>>)))}   \* "1e1"

OrderKeys ==
    {"name", "type", "extension", "mime_type", "transfer_method", "url", "size", "id"}

InitStage ==
    /\ pc = "call"
    /\ pool = Unbound
    /\ inputs = EmptyDict
    /\ process_data = EmptyDict
    /\ run_result = NotReturned
    /\ raised = NoExc
    /\ stage_log = <<>>

\* the segments a stage can be given: arrays of one supported kind
NumberSegments(n) == {Segment("array[number]", a) : a \in SeqsUpTo(Numbers, n)}
StringSegments(n) == {Segment("array[string]", a) : a \in SeqsUpTo(Strings, n)}
FileSegments(n) == {Segment("array[file]", a) : a \in SeqsUpTo(Files, n)}

CallStage(name, r) ==
    /\ pc = "call"
    /\ pc' = "returned"
    /\ stage_log' = Append(stage_log, Call(name, variable, r))
    /\ variable' = IF r.exc = NoExc THEN r.val ELSE variable
    /\ raised' = r.exc
    /\ UNCHANGED <<pool, node_data, inputs, process_data, run_result>>

OffExtract == ExtractBy(FALSE, Lit(S_1))
OffOrder == OrderBy(FALSE, "", "asc")
OffLimit == Limit(FALSE, 0)
OffFilter == FilterBy(FALSE, <<>>)

\* node.py 125-157
InitFilter ==
    /\ InitStage
    /\ \E conds \in {NumberConditionSet, StringConditionSet, FileConditionSet} :
         /\ variable \in (IF conds = NumberConditionSet
                           THEN NumberSegments(MaxFilterLen)
                           ELSE IF conds = StringConditionSet
                           THEN StringSegments(MaxFilterLen)
                           ELSE FileSegments(MaxFilterLen))
         /\ node_data \in {NodeData(FilterBy(TRUE, cs), OffExtract, OffOrder, OffLimit) :
                              cs \in SeqsUpTo(conds, MaxConds)}

CallFilter == CallStage("filter", _apply_filter(variable, node_data))

SpecFilter == InitFilter /\ [][CallFilter]_vars

\* node.py 159-173
InitOrder ==
    /\ InitStage
    /\ \/ /\ \/ variable \in NumberSegments(MaxLen)
             \/ variable \in StringSegments(MaxLen)
          /\ node_data \in {NodeData(OffFilter, OffExtract, OrderBy(TRUE, "", v), OffLimit) :
                               v \in {"asc", "desc"}}
       \/ /\ variable \in FileSegments(MaxLen)
          /\ node_data \in {NodeData(OffFilter, OffExtract, OrderBy(TRUE, k, v), OffLimit) :
                               k \in OrderKeys, v \in {"asc", "desc"}}

CallOrder == CallStage("order", _apply_order(variable, node_data))

SpecOrder == InitOrder /\ [][CallOrder]_vars

\* node.py 175-179
InitSlice ==
    /\ InitStage
    /\ \/ variable \in NumberSegments(MaxLen)
       \/ variable \in StringSegments(MaxLen)
       \/ variable \in FileSegments(MaxLen)
    /\ node_data \in {NodeData(OffFilter, OffExtract, OffOrder, Limit(TRUE, n)) :
                         n \in (0 - 2)..(MaxLen + 1)}

CallSlice == CallStage("limit", _apply_slice(variable, node_data))

SpecSlice == InitSlice /\ [][CallSlice]_vars

\* node.py 134-137 with the operators "in" and "not in": the filter stage
\* called with one such condition on an array of strings, some of which hold
\* the separator ","
S_comma == <<44>>
S_ba == <<98, 97>>
S_a_comma_b == <<97, 44, 98>>

InStrings == {S_empty, S_a, S_b, S_ab, S_ba, S_comma, S_a_comma_b}

\* operand templates: literal text, a pool reference, and a mix of both
InOperands ==
    {Lit(S_a_comma_b), Ref("arg"), Lit(S_empty), Lit(S_a),
     Ref("arg") \o Lit(S_comma) \o Lit(S_a)}

InConditionSet ==
    {Condition("", op, StrValue(v)) : op \in {"in", "not in"}, v \in InOperands}

InitIn ==
    /\ InitStage
    /\ variable \in {Segment("array[string]", a) : a \in SeqsUpTo(InStrings, MaxFilterLen)}
    /\ node_data \in {NodeData(FilterBy(TRUE, <<c>>), OffExtract, OffOrder, OffLimit) :
                         c \in InConditionSet}

SpecIn == InitIn /\ [][CallFilter]_vars

-----------------------------------------------------------------------------
(* Two invocations of _run over one variable pool, interleaved between the
   statements of _run.  Each invocation has its own locals (the variables
   are functions of the invocation); the segment bound in the pool is the one
   object they share.  A local `variable` either still is that object
   (alias) or is a segment of its own. *)

Procs == {1, 2}

\* the configurations of the interleaved invocations
ParNodeData ==
    {NodeData(f, e, o, l) :
        f \in {FilterBy(FALSE, <<>>),
               FilterBy(TRUE, <<>>),
               FilterBy(TRUE, <<Condition("", ">", StrValue(Lit(S_1)))>>)},
        e \in {ExtractBy(FALSE, Lit(S_1)), ExtractBy(TRUE, Lit(S_2))},
        o \in {OrderBy(FALSE, "", "asc"), OrderBy(TRUE, "", "desc")},
        l \in {Limit(FALSE, 0), Limit(TRUE, 1)}}

Alias == [alias |-> TRUE, seg |-> Segment("array[number]", <<>>)]
Own(seg) == [alias |-> FALSE, seg |-> seg]

\* the segment a local refers to
Deref(local) == IF local.alias THEN pool.seg ELSE local.seg

InitPar ==
    /\ pool \in {Bound(Segment("array[number]", a)) :
                    a \in SeqsUpTo(RunNumbers, ParMaxLen)}
    /\ node_data \in [Procs -> ParNodeData]
    /\ pc = [p \in Procs |-> "start"]
    /\ variable = [p \in Procs |-> Own(Segment("array[number]", <<>>))]
    /\ inputs = [p \in Procs |-> EmptyDict]
    /\ process_data = [p \in Procs |-> EmptyDict]
    /\ run_result = [p \in Procs |-> NotReturned]
    /\ raised = [p \in Procs |-> NoExc]
    /\ stage_log = [p \in Procs |-> <<>>]

\* (mutant) the new value written into the list the segment holds
CopyOnWrite_InPlace(shared, local, seg) ==
    IF local.alias THEN [shared |-> seg, local |-> local]
    ELSE [shared |-> shared, local |-> Own(seg)]

\* variable = variable.model_copy(update={"value": result}), result being a
\* list the stage has built: the local is bound to a new segment and the
\* segment it was bound to is left as it is
CopyOnWrite(shared, local, seg) == [shared |-> shared, local |-> Own(seg)]

\* the stage returns the very object it was given: _apply_filter whose loop
\* over the conditions runs no iteration (node.py 130, 157); every other
\* stage, and a filter with a condition, ends in a model_copy
ReturnsArgument(at, nd) == at = "filter" /\ nd.filter_by.conditions = <<>>

\* node.py 47-86
ParResolveVariable(p) ==
    /\ pc[p] = "start"
    /\ UNCHANGED <<pool, node_data, raised, stage_log>>
    /\ IF ~pool.bound
       THEN /\ pc' = [pc EXCEPT ![p] = "done"]
            /\ run_result' = [run_result EXCEPT ![p] = NotFoundResult]
            /\ UNCHANGED <<variable, inputs, process_data>>
       ELSE IF ~Truthy(pool.seg)
       THEN /\ pc' = [pc EXCEPT ![p] = "done"]
            /\ variable' = [variable EXCEPT ![p] = Alias]
            /\ inputs' = [inputs EXCEPT ![p] = [variable |-> <<>>]]
            /\ process_data' = [process_data EXCEPT ![p] = [variable |-> <<>>]]
            /\ run_result' = [run_result EXCEPT ![p] =
                 NodeRunResult("succeeded", "", inputs'[p], process_data'[p],
                     [result |-> IF pool.seg.kind \in ArrayKinds
                                 THEN model_copy(pool.seg, <<>>)
                                 ELSE Segment("array[any]", <<>>),
                      first_record |-> NoRecord, last_record |-> NoRecord])]
       ELSE IF pool.seg.kind \notin {"array[file]", "array[number]", "array[string]"}
       THEN /\ pc' = [pc EXCEPT ![p] = "done"]
            /\ variable' = [variable EXCEPT ![p] = Alias]
            /\ run_result' = [run_result EXCEPT ![p] =
                 NodeRunResult("failed",
                     "Variable is not an ArrayFileSegment, ArrayNumberSegment or ArrayStringSegment",
                     EmptyDict, EmptyDict, EmptyDict)]
            /\ UNCHANGED <<inputs, process_data>>
       ELSE /\ pc' = [pc EXCEPT ![p] = "filter"]
            /\ variable' = [variable EXCEPT ![p] = Alias]
            /\ inputs' = [inputs EXCEPT ![p] = [variable |->
                             IF pool.seg.kind = "array[file]"
                             THEN [i \in 1..Len(pool.seg.value) |->
                                     to_dict(pool.seg.value[i])]
                             ELSE pool.seg.value]]
            /\ process_data' = [process_data EXCEPT ![p] = inputs'[p]]
            /\ UNCHANGED run_result

\* node.py 116-123
ParExcept(p, exc) ==
    /\ pc' = [pc EXCEPT ![p] = "done"]
    /\ IF exc.type \in ListOperatorErrors
       THEN /\ run_result' = [run_result EXCEPT ![p] =
                 NodeRunResult("failed", exc.msg, inputs[p], process_data[p],
                               EmptyDict)]
            /\ UNCHANGED raised
       ELSE /\ raised' = [raised EXCEPT ![p] = exc]
            /\ UNCHANGED run_result

\* node.py 89-99
ParStage(p, at, enabled, r) ==
    /\ pc[p] = at
    /\ UNCHANGED <<node_data, inputs, process_data>>
    /\ IF ~enabled
       THEN /\ pc' = [pc EXCEPT ![p] = StageAfter(at)]
            /\ UNCHANGED <<pool, variable, run_result, raised, stage_log>>
       ELSE /\ stage_log' = [stage_log EXCEPT ![p] =
                                Append(@, Call(at, Deref(variable[p]), r))]
            /\ IF r.exc = NoExc
               THEN LET w == IF ReturnsArgument(at, node_data[p])
                             THEN [shared |-> pool.seg, local |-> variable[p]]
                             ELSE CopyOnWrite(pool.seg, variable[p], r.val)
                    IN
                    /\ pool' = [pool EXCEPT !.seg = w.shared]
                    /\ variable' = [variable EXCEPT ![p] = w.local]
                    /\ pc' = [pc EXCEPT ![p] = StageAfter(at)]
                    /\ UNCHANGED <<run_result, raised>>
               ELSE /\ ParExcept(p, r.exc)
                    /\ UNCHANGED <<pool, variable>>

ParFilter(p) ==
    ParStage(p, "filter", node_data[p].filter_by.enabled,
             _apply_filter(Deref(variable[p]), node_data[p]))

ParExtract(p) ==
    ParStage(p, "extract", node_data[p].extract_by.enabled,
             _extract_slice(Deref(variable[p]), node_data[p]))

ParOrder(p) ==
    ParStage(p, "order", node_data[p].order_by.enabled,
             _apply_order(Deref(variable[p]), node_data[p]))

\* node.py 101-115
ParLimitAndReturn(p) ==
    /\ pc[p] = "limit"
    /\ pc' = [pc EXCEPT ![p] = "done"]
    /\ UNCHANGED <<node_data, inputs, process_data, raised>>
    /\ LET cur == Deref(variable[p])
           r == _apply_slice(cur, node_data[p])
           w == IF node_data[p].limit.enabled
                THEN CopyOnWrite(pool.seg, variable[p], r.val)
                ELSE [shared |-> pool.seg, local |-> variable[p]]
           out == IF w.local.alias THEN w.shared ELSE w.local.seg
       IN  /\ stage_log' = IF node_data[p].limit.enabled
                            THEN [stage_log EXCEPT ![p] =
                                     Append(@, Call("limit", cur, r))]
                            ELSE stage_log
           /\ pool' = [pool EXCEPT !.seg = w.shared]
           /\ variable' = [variable EXCEPT ![p] = w.local]
           /\ run_result' = [run_result EXCEPT ![p] =
                NodeRunResult("succeeded", "", inputs[p], process_data[p],
                    [result |-> out,
                     first_record |-> first_record(out),
                     last_record |-> last_record(out)])]

NextPar ==
    \E p \in Procs :
        \/ ParResolveVariable(p)
        \/ ParFilter(p)
        \/ ParExtract(p)
        \/ ParOrder(p)
        \/ ParLimitAndReturn(p)

SpecPar == InitPar /\ [][NextPar]_vars

-----------------------------------------------------------------------------
(* Properties *)

SupportedKinds == {"array[file]", "array[number]", "array[string]"}

\* the run is over a non-empty array of files, numbers or strings
NonEmptyInput ==
    pool.bound /\ pool.seg.kind \in SupportedKinds /\ pool.seg.value # <<>>

Done == pc = "done"
Succeeded == run_result.status = "succeeded"

FixedOrder == <<"filter", "extract", "order", "limit">>

StageEnabled(stage, nd) ==
    CASE stage = "filter" -> nd.filter_by.enabled
      [] stage = "extract" -> nd.extract_by.enabled
      [] stage = "order" -> nd.order_by.enabled
      [] stage = "limit" -> nd.limit.enabled

StageResult(stage, var, nd) ==
    CASE stage = "filter" -> _apply_filter(var, nd)
      [] stage = "extract" -> _extract_slice(var, nd)
      [] stage = "order" -> _apply_order(var, nd)
      [] stage = "limit" -> _apply_slice(var, nd)

\* the switched-on stages among `stages` applied one after the other, each to
\* the outcome of the one before, up to the first that raises
RECURSIVE Compose(_, _, _)
Compose(stages, var, nd) ==
    IF stages = <<>> THEN [exc |-> NoExc, val |-> var, calls |-> <<>>]
    ELSE IF ~StageEnabled(Head(stages), nd) THEN Compose(Tail(stages), var, nd)
    ELSE LET r == StageResult(Head(stages), var, nd)
             call == Call(Head(stages), var, r)
         IN  IF r.exc # NoExc
             THEN [exc |-> r.exc, val |-> var, calls |-> <<call>>]
             ELSE LET rest == Compose(Tail(stages), r.val, nd)
                  IN  [exc |-> rest.exc, val |-> rest.val,
                       calls |-> <<call>> \o rest.calls]

\* C1: over a non-empty array of a supported kind, a finished run has called
\* exactly the switched-on stages in the order filter, extract, order, limit,
\* each on the outcome of the one before; it returns the outcome of the last,
\* or ends where the first of them raises.  With filter, extract and order on,
\* the extracted element is the one at position serial of the filtered array.
C1_FixedStageOrder ==
    (Done /\ NonEmptyInput) =>
        LET p == Compose(FixedOrder, pool.seg, node_data) IN
        /\ stage_log = p.calls
        /\ p.exc = NoExc => Succeeded /\ run_result.outputs.result = p.val
        /\ p.exc # NoExc =>
              /\ ~Succeeded
              /\ stage_log[Len(stage_log)].exc = p.exc
        /\ ( /\ Succeeded
             /\ node_data.filter_by.enabled /\ node_data.extract_by.enabled
             /\ node_data.order_by.enabled /\ ~node_data.limit.enabled )
           => run_result.outputs.result.value =
                <<_apply_filter(pool.seg, node_data).val.value[
                     PyInt(convert_template(node_data.extract_by.serial)).val]>>

\* a run with filter, extract and order on, over an array whose filtered
\* elements are not in sorted order, has returned the element at position
\* serial of the unsorted filtered array
C1_Witness ==
    /\ Done /\ NonEmptyInput /\ Succeeded
    /\ node_data.filter_by.enabled /\ node_data.extract_by.enabled
    /\ node_data.order_by.enabled /\ node_data.limit.enabled
    /\ Len(stage_log) = 4
    /\ node_data.filter_by.conditions # <<>>
    /\ Len(stage_log[1].ret.value) = 2
    /\ _apply_order(stage_log[1].ret, node_data).val # stage_log[1].ret
    /\ stage_log[2].ret.value = <<stage_log[1].ret.value[1]>>
    /\ run_result.outputs.result.value = <<stage_log[1].ret.value[1]>>
    /\ _apply_order(stage_log[1].ret, node_data).val.value[1]
         # stage_log[1].ret.value[1]

\* C2: over a non-empty array of a supported kind with filter, extract, order
\* and limit all switched off, the run succeeds, its result is the input array
\* (same kind, same elements, same order), first_record is the input's first
\* element and last_record its last.
C2_AllDisabledIdentity ==
    ( /\ Done /\ NonEmptyInput
      /\ \A i \in 1..4 : ~StageEnabled(FixedOrder[i], node_data) )
    => /\ Succeeded
       /\ raised = NoExc
       /\ run_result.outputs.result = pool.seg
       /\ run_result.outputs.first_record = <<pool.seg.value[1]>>
       /\ run_result.outputs.last_record = <<pool.seg.value[Len(pool.seg.value)]>>

\* such a run over two different elements has returned
C2_Witness ==
    /\ Done /\ NonEmptyInput /\ Succeeded
    /\ \A i \in 1..4 : ~StageEnabled(FixedOrder[i], node_data)
    /\ Len(pool.seg.value) = 2
    /\ pool.seg.value[1] # pool.seg.value[2]
    /\ run_result.outputs.result.value = pool.seg.value

\* C3: when the pool binds an empty array, the run succeeds with an empty
\* result of the same kind and first_record = last_record = None, no stage is
\* called and nothing is raised, whatever the configuration.
C3_EmptyShortCircuit ==
    ( /\ Done /\ pool.bound /\ pool.seg.kind \in ArrayKinds
      /\ pool.seg.value = <<>> )
    => /\ Succeeded
       /\ raised = NoExc
       /\ run_result.outputs.result = pool.seg
       /\ run_result.outputs.first_record = NoRecord
       /\ run_result.outputs.last_record = NoRecord
       /\ stage_log = <<>>

\* an empty array of files has gone through a run whose filter names an
\* unknown key, whose serial is out of range and whose order key is unknown
C3_Witness ==
    /\ Done /\ pool.bound /\ pool.seg = Segment("array[file]", <<>>)
    /\ Succeeded
    /\ node_data.filter_by.enabled
    /\ node_data.filter_by.conditions = <<Condition("path", "is", StrValue(Lit(S_a)))>>
    /\ node_data.extract_by.enabled
    /\ PyInt(convert_template(node_data.extract_by.serial)).val = 3
    /\ node_data.order_by.enabled /\ node_data.order_by.key = "id"
    /\ node_data.limit.enabled

\* C10: when the selector has no binding in the pool, the run returns a
\* failed result with the message "Variable not found", calls no stage, has
\* no outputs and raises nothing.
C10_NotFoundSoftFailure ==
    (Done /\ ~pool.bound)
    => /\ run_result.status = "failed"
       /\ run_result.error = "Variable not found for selector"
       /\ DOMAIN run_result.outputs = {}
       /\ DOMAIN run_result.inputs = {}
       /\ stage_log = <<>>
       /\ raised = NoExc

\* a run over an unbound selector, with every stage switched on, has returned
C10_Witness ==
    /\ Done /\ ~pool.bound
    /\ run_result.status = "failed"
    /\ \A i \in 1..4 : StageEnabled(FixedOrder[i], node_data)

\* a stage called on its own has returned or raised
Returned(stage) == pc = "returned" /\ stage_log[1].stage = stage

StringKeys == {"name", "extension", "mime_type", "url"}
EnumKeys == {"type", "transfer_method"}

\* a condition that is valid for the kind: the operator belongs to the kind
\* (for files, to the key's type) and the operand has the shape it asks for
ValidCondition(kind, c) ==
    CASE kind = "array[string]" ->
           c.value.t = "str" /\ c.comparison_operator \in StringConditions
      [] kind = "array[number]" ->
           /\ c.value.t = "str" /\ PyFloat(convert_template(c.value.v)).exc = NoExc
           /\ c.comparison_operator \in NumberConditions
      [] kind = "array[file]" ->
           \/ /\ c.key \in StringKeys /\ c.value.t = "str"
              /\ c.comparison_operator \in StringConditions
           \/ /\ c.key \in EnumKeys /\ c.value.t = "list"
              /\ c.comparison_operator \in {"in", "not in"}
           \/ /\ c.key = "size" /\ c.value.t = "str"
              /\ PyFloat(convert_template(c.value.v)).exc = NoExc
              /\ c.comparison_operator \in NumberConditions

\* element x satisfies the valid condition c
Satisfies(kind, c, x) ==
    LET text == convert_template(c.value.v) IN
    CASE kind = "array[string]" ->
           _get_string_filter_func(c.comparison_operator, text, x)
      [] kind = "array[number]" ->
           _get_number_filter_func(c.comparison_operator, PyFloat(text).val, x)
      [] kind = "array[file]" ->
           IF c.key \in StringKeys
           THEN _get_string_filter_func(c.comparison_operator, text,
                                        _get_file_extract_string_func(c.key, x))
           ELSE IF c.key \in EnumKeys
           THEN _get_sequence_filter_func(c.comparison_operator, c.value,
                                          _get_file_extract_string_func(c.key, x))
           ELSE _get_number_filter_func(c.comparison_operator,
                                        PyFloat(text).val, x.size)

\* the elements of s at the positions in I, in the order of s
RECURSIVE Pick(_, _, _)
Pick(s, I, i) ==
    IF i > Len(s) THEN <<>>
    ELSE (IF i \in I THEN <<s[i]>> ELSE <<>>) \o Pick(s, I, i + 1)

Bijections(n) == {f \in [1..n -> 1..n] : \A i, j \in 1..n : f[i] = f[j] => i = j}

\* C4: given valid conditions, _apply_filter returns exactly the elements that
\* satisfy every condition, each as often as in the input and in the input's
\* order, and returns the same array for every order of the conditions.
C4_FilterIsConjunction ==
    Returned("filter") =>
        LET call == stage_log[1]
            conds == node_data.filter_by.conditions
            kind == call.arg.kind
            array == call.arg.value
        IN  (\A k \in 1..Len(conds) : ValidCondition(kind, conds[k])) =>
            /\ call.exc = NoExc
            /\ call.ret.kind = kind
            /\ call.ret.value =
                 Pick(array,
                      {i \in 1..Len(array) :
                         \A k \in 1..Len(conds) : Satisfies(kind, conds[k], array[i])},
                      1)
            /\ \A f \in Bijections(Len(conds)) :
                 _apply_filter_loop(call.arg, [k \in 1..Len(conds) |-> conds[f[k]]])
                   = [exc |-> NoExc, val |-> call.ret]

\* two valid conditions have filtered an array of two elements: each alone
\* keeps one element, a different one, and together they keep none
C4_Witness ==
    /\ Returned("filter")
    /\ Len(node_data.filter_by.conditions) = 2
    /\ \A k \in 1..2 :
         ValidCondition(stage_log[1].arg.kind, node_data.filter_by.conditions[k])
    /\ \A k \in 1..2 :
         _apply_filter_loop(stage_log[1].arg, <<node_data.filter_by.conditions[k]>>).val
           # stage_log[1].ret
    /\ \A k \in 1..2 :
         Len(_apply_filter_loop(stage_log[1].arg,
                                <<node_data.filter_by.conditions[k]>>).val.value) = 1
    /\ stage_log[1].ret.value = <<>>
    /\ Len(stage_log[1].arg.value) = 2

\* the serial of the configuration, once resolved and parsed
Serial == PyInt(convert_template(node_data.extract_by.serial))

\* C5: for an array of length n reaching the extract stage and a resolved
\* serial s: if 1 <= s <= n the stage returns the one-element array
\* [array[s-1]] of the same kind; if s < 1 or s > n the stage raises and the
\* run does not end succeeded.
C5_ExtractBounds ==
    \A i \in 1..Len(stage_log) :
        (stage_log[i].stage = "extract" /\ Serial.exc = NoExc) =>
            LET call == stage_log[i]
                n == Len(call.arg.value)
                s == Serial.val
            IN  /\ (1 <= s /\ s <= n) =>
                      /\ call.exc = NoExc
                      /\ call.ret = model_copy(call.arg, <<call.arg.value[s]>>)
                /\ (s < 1 \/ s > n) =>
                      /\ call.exc # NoExc
                      /\ Done /\ ~Succeeded

\* the last element of a two-element array has been extracted
C5_Witness ==
    /\ Done /\ Succeeded
    /\ \E i \in 1..Len(stage_log) :
         /\ stage_log[i].stage = "extract"
         /\ Len(stage_log[i].arg.value) = 2
         /\ Serial.val = 2
         /\ stage_log[i].arg.value[1] # stage_log[i].arg.value[2]
         /\ stage_log[i].ret.value = <<stage_log[i].arg.value[2]>>

\* the extract stage was called with a serial outside [1, length]
SerialOutOfRange(i) ==
    /\ stage_log[i].stage = "extract"
    /\ Serial.exc = NoExc
    /\ (Serial.val < 1 \/ Serial.val > Len(stage_log[i].arg.value))

\* C6 as stated: whenever the serial is outside [1, length], below or above,
\* the error is generic and uncaught, and no failed result is returned.
C6_Original ==
    \A i \in 1..Len(stage_log) :
        SerialOutOfRange(i) =>
            /\ raised # NoExc
            /\ raised.type \notin ListOperatorErrors
            /\ run_result = NotReturned

\* C6: a serial below 1 raises a generic ValueError that the handler of _run
\* does not catch: no result is returned and the error reaches the caller.
\* A serial above the length raises the typed InvalidKeyError, which the
\* handler catches: the run returns a failed result carrying the message,
\* the inputs and the process data, and nothing reaches the caller.
C6_BoundsErrorChannels ==
    \A i \in 1..Len(stage_log) :
        SerialOutOfRange(i) =>
            /\ Done
            /\ Serial.val < 1 =>
                  /\ raised = Exc("ValueError", "Invalid serial index: must be >= 1")
                  /\ raised.type \notin ListOperatorErrors
                  /\ run_result = NotReturned
            /\ Serial.val > Len(stage_log[i].arg.value) =>
                  /\ stage_log[i].exc.type = "InvalidKeyError"
                  /\ raised = NoExc
                  /\ run_result =
                       NodeRunResult("failed", "Invalid serial index: must be <= len",
                                     inputs, process_data, EmptyDict)
                  /\ "variable" \in DOMAIN run_result.inputs

\* a run over a two-element array with serial 3 has returned a failed result
C6_Witness ==
    /\ Done
    /\ \E i \in 1..Len(stage_log) :
         /\ SerialOutOfRange(i)
         /\ Len(stage_log[i].arg.value) = 2
         /\ Serial.val = 3
    /\ run_result.status = "failed"
    /\ raised = NoExc

OrderIsNumeric(kind, order_by) ==
    kind = "array[number]" \/ (kind = "array[file]" /\ order_by = "size")

OrderKeyValid(kind, order_by) ==
    kind = "array[file]" =>
        order_by \in {"name", "type", "extension", "mime_type", "transfer_method",
                      "url", "size"}

\* the sort key of element x
SortKey(kind, order_by, x) ==
    IF kind # "array[file]" THEN x
    ELSE IF order_by = "size" THEN x.size
    ELSE _get_file_extract_string_func(order_by, x)

\* C7: the order stage returns a permutation of its input in which the sort
\* keys never decrease (asc) or never increase (desc), and in both directions
\* elements with equal keys keep the order they had in the input.
C7_OrderStableSorted ==
    (Returned("order") /\ OrderKeyValid(stage_log[1].arg.kind, node_data.order_by.key))
    => LET call == stage_log[1]
           kind == call.arg.kind
           n == Len(call.arg.value)
           numeric == OrderIsNumeric(kind, node_data.order_by.key)
           key(x) == SortKey(kind, node_data.order_by.key, x)
           desc == node_data.order_by.value = "desc"
       IN  /\ call.exc = NoExc
           /\ call.ret.kind = kind
           /\ Len(call.ret.value) = n
           /\ \E f \in Bijections(n) :
                /\ \A i \in 1..n : call.ret.value[i] = call.arg.value[f[i]]
                /\ \A i, j \in 1..n :
                     (i < j /\ key(call.ret.value[i]) = key(call.ret.value[j]))
                     => f[i] < f[j]
           /\ \A i, j \in 1..n :
                i < j =>
                  IF desc
                  THEN ~KeyLess(numeric, key(call.ret.value[i]), key(call.ret.value[j]))
                  ELSE ~KeyLess(numeric, key(call.ret.value[j]), key(call.ret.value[i]))

\* three files have been sorted in descending order: two different files with
\* the same key, and behind them in the input a file with a greater key
C7_Witness ==
    /\ Returned("order")
    /\ stage_log[1].arg.kind = "array[file]"
    /\ node_data.order_by.key = "size" /\ node_data.order_by.value = "desc"
    /\ Len(stage_log[1].arg.value) = 3
    /\ stage_log[1].arg.value[1] # stage_log[1].arg.value[2]
    /\ stage_log[1].arg.value[1].size = stage_log[1].arg.value[2].size
    /\ stage_log[1].arg.value[3].size > stage_log[1].arg.value[1].size
    /\ stage_log[1].ret.value =
         <<stage_log[1].arg.value[3], stage_log[1].arg.value[1],
           stage_log[1].arg.value[2]>>

\* position j of the input comes before position i in the sorted order
ComesBefore(numeric, desc, keys, j, i) ==
    \/ IF desc THEN KeyLess(numeric, keys[i], keys[j])
       ELSE KeyLess(numeric, keys[j], keys[i])
    \/ keys[j] = keys[i] /\ j < i

\* C8: with order and limit(k) switched on and filter and extract off, the
\* run returns min(k, n) elements: the r-th is the input element that has
\* exactly r-1 elements before it, where an element comes before another if
\* its key is smaller (asc) or greater (desc), or equal and it stands earlier
\* in the input.
C8_OrderThenLimit ==
    ( /\ Done /\ NonEmptyInput
      /\ ~node_data.filter_by.enabled /\ ~node_data.extract_by.enabled
      /\ node_data.order_by.enabled /\ node_data.limit.enabled
      /\ node_data.limit.size >= 0
      /\ OrderKeyValid(pool.seg.kind, node_data.order_by.key) )
    => LET array == pool.seg.value
           n == Len(array)
           k == node_data.limit.size
           numeric == OrderIsNumeric(pool.seg.kind, node_data.order_by.key)
           desc == node_data.order_by.value = "desc"
           keys == [i \in 1..n |->
                      SortKey(pool.seg.kind, node_data.order_by.key, array[i])]
           rank(i) == 1 + Cardinality({j \in 1..n :
                                         ComesBefore(numeric, desc, keys, j, i)})
           result == run_result.outputs.result
       IN  /\ Succeeded
           /\ result.kind = pool.seg.kind
           /\ Len(result.value) = (IF k < n THEN k ELSE n)
           /\ \A r \in 1..Len(result.value) :
                \E i \in 1..n : rank(i) = r /\ result.value[r] = array[i]

\* of two different files with the same size, limit 1 after a descending
\* order has returned the one that stands first in the input
C8_Witness ==
    /\ Done /\ NonEmptyInput /\ Succeeded
    /\ ~node_data.filter_by.enabled /\ ~node_data.extract_by.enabled
    /\ node_data.order_by.enabled /\ node_data.limit.enabled
    /\ node_data.limit.size = 1
    /\ pool.seg.kind = "array[file]"
    /\ node_data.order_by.key = "size" /\ node_data.order_by.value = "desc"
    /\ Len(pool.seg.value) = 2
    /\ pool.seg.value[1] # pool.seg.value[2]
    /\ pool.seg.value[1].size = pool.seg.value[2].size
    /\ run_result.outputs.result.value = <<pool.seg.value[1]>>

\* C9: for a size >= 0 the limit stage raises nothing and returns the first
\* min(size, n) elements of its input in unchanged order.
C9_LimitIsPrefix ==
    (Returned("limit") /\ node_data.limit.size >= 0)
    => LET call == stage_log[1]
           n == Len(call.arg.value)
           k == node_data.limit.size
       IN  /\ call.exc = NoExc
           /\ call.ret.kind = call.arg.kind
           /\ Len(call.ret.value) = (IF k < n THEN k ELSE n)
           /\ \A i \in 1..Len(call.ret.value) : call.ret.value[i] = call.arg.value[i]
           /\ k >= n => call.ret = call.arg
           /\ k = 0 => call.ret.value = <<>>

\* three different elements have been cut down to the first two
C9_Witness ==
    /\ Returned("limit")
    /\ node_data.limit.size = 2
    /\ Len(stage_log[1].arg.value) = 3
    /\ stage_log[1].arg.value[2] # stage_log[1].arg.value[3]
    /\ stage_log[1].ret.value = SubSeq(stage_log[1].arg.value, 1, 2)

\* the value of a segment is empty, zero or null
EmptyZeroOrNull(seg) ==
    CASE seg.kind \in ArrayKinds -> Len(seg.value) = 0
      [] seg.kind = "string" -> Len(seg.value) = 0
      [] seg.kind = "number" -> seg.value < 1 /\ seg.value > 0 - 1
      [] seg.kind = "none" -> TRUE

UnsupportedTypeError ==
    "Variable is not an ArrayFileSegment, ArrayNumberSegment or ArrayStringSegment"

\* C11 as stated: every bound variable that is no array of files, numbers or
\* strings, an empty, zero or null non-array value included, ends failed with
\* the unsupported-type error; only an empty array is let through.
C11_Original ==
    ( /\ Done /\ pool.bound
      /\ pool.seg.kind \notin SupportedKinds
      /\ ~(pool.seg.kind \in ArrayKinds /\ EmptyZeroOrNull(pool.seg)) )
    => /\ run_result.status = "failed"
       /\ run_result.error = UnsupportedTypeError

\* C11: a bound variable that is no array of files, numbers or strings ends
\* failed with the unsupported-type error, with no stage called and nothing
\* raised, when its value is non-empty, non-zero and not null.  When its value
\* is empty, zero or null the run takes the successful empty short-circuit,
\* whether the variable is an array or not: the result is an empty array, of
\* the variable's kind for an array and of kind any otherwise.
C11_TypeGuardAfterEmptyCheck ==
    (Done /\ pool.bound /\ pool.seg.kind \notin SupportedKinds)
    => /\ stage_log = <<>>
       /\ raised = NoExc
       /\ IF EmptyZeroOrNull(pool.seg)
          THEN /\ Succeeded
               /\ run_result.outputs.result =
                    Segment(IF pool.seg.kind \in ArrayKinds THEN pool.seg.kind
                            ELSE "array[any]", <<>>)
               /\ run_result.outputs.first_record = NoRecord
               /\ run_result.outputs.last_record = NoRecord
          ELSE /\ run_result.status = "failed"
               /\ run_result.error = UnsupportedTypeError
               /\ DOMAIN run_result.outputs = {}

\* the number 0 has gone through a run and come back as an empty array
C11_Witness ==
    /\ Done /\ pool.bound
    /\ pool.seg.kind = "number"
    /\ EmptyZeroOrNull(pool.seg)
    /\ Succeeded
    /\ run_result.outputs.result = Segment("array[any]", <<>>)

\* the first condition of the filter compares numbers (the elements of an
\* array of numbers, or the size of files) with an operand whose resolved
\* text is no number
FirstOperandUnparsable ==
    /\ NonEmptyInput
    /\ node_data.filter_by.enabled
    /\ node_data.filter_by.conditions # <<>>
    /\ LET c == node_data.filter_by.conditions[1] IN
       /\ c.value.t = "str"
       /\ \/ pool.seg.kind = "array[number]"
          \/ pool.seg.kind = "array[file]" /\ c.key = "size"
       /\ PyFloat(convert_template(c.value.v)).exc # NoExc

\* C12: a filter condition on numbers whose operand does not parse as a
\* number makes the run return a failed result carrying the error message;
\* the error never reaches the caller.
C12_ParseFailureIsSoft ==
    (Done /\ FirstOperandUnparsable)
    => /\ run_result.status = "failed"
       /\ run_result.error # ""
       /\ raised = NoExc

FileKeys == StringKeys \cup EnumKeys \cup {"size"}

\* a file condition the filter has to reject: an unknown key, an operand whose
\* shape does not fit the key's type, or an operator outside the key's set
InvalidFileCondition(c) ==
    \/ c.key \notin FileKeys
    \/ c.key \in StringKeys \cup {"size"} /\ c.value.t = "list"
    \/ c.key \in EnumKeys /\ c.value.t = "str"
    \/ c.key \in StringKeys /\ c.comparison_operator \notin StringConditions
    \/ c.key \in EnumKeys /\ c.comparison_operator \notin {"in", "not in"}
    \/ c.key = "size" /\ c.comparison_operator \notin NumberConditions

\* the operand of a size condition, when it is a str, is a number
SizeOperandParses(c) ==
    (c.key = "size" /\ c.value.t = "str")
    => PyFloat(convert_template(c.value.v)).exc = NoExc

\* C13: the filter stage over a non-empty array of files raises the invalid
\* key or the invalid condition error whenever one of its conditions has an
\* unknown key, an operand of the wrong shape for the key or an operator
\* outside the key's set, and the conditions before it are valid, however
\* many elements those left in the array.
C13_InvalidFileConditionRejected ==
    ( /\ Returned("filter")
      /\ stage_log[1].arg.kind = "array[file]"
      /\ stage_log[1].arg.value # <<>> )
    => \A i \in 1..Len(node_data.filter_by.conditions) :
          ( /\ InvalidFileCondition(node_data.filter_by.conditions[i])
            /\ SizeOperandParses(node_data.filter_by.conditions[i])
            /\ \A j \in 1..(i - 1) :
                  ValidCondition("array[file]", node_data.filter_by.conditions[j]) )
          => stage_log[1].exc.type \in {"InvalidKeyError", "InvalidConditionError"}

AllConditionsValid(kind) ==
    \A i \in 1..Len(node_data.filter_by.conditions) :
        ValidCondition(kind, node_data.filter_by.conditions[i])

\* C14: with valid conditions the filter stage raises nothing, and the filter
\* stage applied with the same conditions to the array it returned returns
\* that array again: the same elements in the same order.
C14_FilterIdempotent ==
    (Returned("filter") /\ AllConditionsValid(stage_log[1].arg.kind))
    => /\ stage_log[1].exc = NoExc
       /\ _apply_filter(stage_log[1].ret, node_data) =
            [exc |-> NoExc, val |-> stage_log[1].ret]

\* two valid conditions have removed one of two elements, and filtering what
\* is left removes nothing more
C14_Witness ==
    /\ Returned("filter")
    /\ AllConditionsValid(stage_log[1].arg.kind)
    /\ Len(node_data.filter_by.conditions) = 2
    /\ node_data.filter_by.conditions[1] # node_data.filter_by.conditions[2]
    /\ Len(stage_log[1].arg.value) = 2
    /\ Len(stage_log[1].ret.value) = 1
    /\ _apply_filter(stage_log[1].ret, node_data).val.value = stage_log[1].ret.value

\* C15: on every succeeded result first_record and last_record follow from
\* the result array alone: the first and the last element of a non-empty
\* result (the same element when its length is 1), and None for both when the
\* result is empty.
C15_RecordsFollowResult ==
    (Done /\ Succeeded)
    => LET res == run_result.outputs.result.value IN
       IF Len(res) > 0
       THEN /\ run_result.outputs.first_record = <<res[1]>>
            /\ run_result.outputs.last_record = <<res[Len(res)]>>
            /\ Len(res) = 1 =>
                 run_result.outputs.first_record = run_result.outputs.last_record
       ELSE /\ run_result.outputs.first_record = NoRecord
            /\ run_result.outputs.last_record = NoRecord

\* the filter has removed every element of a non-empty input and the run has
\* succeeded with an empty result and no first and last record
C15_Witness ==
    /\ Done /\ Succeeded /\ NonEmptyInput
    /\ node_data.filter_by.enabled
    /\ Len(stage_log) > 0
    /\ stage_log[1].stage = "filter"
    /\ stage_log[1].ret.value = <<>>
    /\ ~node_data.extract_by.enabled
    /\ run_result.outputs.result.value = <<>>
    /\ run_result.outputs.first_record = NoRecord
    /\ run_result.outputs.last_record = NoRecord

\* which way ResolveVariable sends the invocation
Branch ==
    IF ~pool.bound THEN "NotFound"
    ELSE IF EmptyZeroOrNull(pool.seg) THEN "EmptyShortCircuit"
    ELSE IF pool.seg.kind \notin SupportedKinds THEN "TypeGuardFail"
    ELSE "RunPipeline"

\* how many of the three terminal outcomes the invocation has reached
Outcomes ==
    (IF run_result.status = "succeeded" THEN 1 ELSE 0)
    + (IF run_result.status = "failed" THEN 1 ELSE 0)
    + (IF raised # NoExc THEN 1 ELSE 0)

StageRank(stage) ==
    CASE stage = "filter" -> 1 [] stage = "extract" -> 2
      [] stage = "order" -> 3 [] stage = "limit" -> 4

RunStateMachine ==
    \* stages execute only in RunPipeline
    /\ stage_log # <<>> => Branch = "RunPipeline"
    /\ pc \in {"filter", "extract", "order", "limit"} => Branch = "RunPipeline"
    \* each stage at most once, in the fixed order
    /\ \A i, j \in 1..Len(stage_log) :
          i < j => StageRank(stage_log[i].stage) < StageRank(stage_log[j].stage)
    \* no stage executes after one that raised
    /\ \A i \in 1..Len(stage_log) :
          stage_log[i].exc # NoExc => i = Len(stage_log) /\ Done
    \* one terminal outcome when the invocation is over, none before
    /\ Outcomes = (IF Done THEN 1 ELSE 0)
    /\ Done =>
         CASE Branch = "NotFound" -> run_result.status = "failed"
           [] Branch = "EmptyShortCircuit" -> Succeeded
           [] Branch = "TypeGuardFail" -> run_result.status = "failed"
           [] Branch = "RunPipeline" ->
                Succeeded <=> \A i \in 1..Len(stage_log) : stage_log[i].exc = NoExc

\* the invocations over the shortest arrays
InitStep ==
    /\ Init
    /\ (pool.bound /\ pool.seg.kind \in ArrayKinds)
          => Len(pool.seg.value) <= StepMaxLen

SpecStep == InitStep /\ [][Next]_vars

\* the position of pc in the text of _run
PcRank(p) ==
    CASE p = "start" -> 0 [] p = "filter" -> 1 [] p = "extract" -> 2
      [] p = "order" -> 3 [] p = "limit" -> 4 [] p = "done" -> 5

\* C16: an invocation goes from ResolveVariable into exactly one of the
\* not-found failure, the empty short-circuit, the type-guard failure and the
\* pipeline; stages are called only in the pipeline, each at most once and in
\* the fixed order, none after a stage that raised; the invocation has no
\* outcome while it runs and exactly one of succeeded, failed and uncaught
\* error when it is over.  It is over after finitely many steps: a step can
\* be taken as long as it is not over, every step moves pc forward in the
\* text of _run, and no step follows the end.
C16_RunStateMachine ==
    /\ []RunStateMachine
    /\ [](~Done => ENABLED Next)
    /\ [][PcRank(pc') > PcRank(pc)]_<<pc, run_result, raised, stage_log>>

\* a pipeline has ended in the handler after two stages, the second of which
\* raised a typed error
C16_Witness ==
    /\ Done /\ Branch = "RunPipeline"
    /\ Len(stage_log) = 2
    /\ stage_log[1].exc = NoExc
    /\ stage_log[2].exc # NoExc
    /\ run_result.status = "failed"
    /\ node_data.order_by.enabled /\ node_data.limit.enabled

\* the extract stage of the run has returned its one-element array, and the
\* limit stage, if switched on, has a size of at least 1
ExtractedInRange ==
    /\ Done /\ NonEmptyInput
    /\ node_data.extract_by.enabled
    /\ \E i \in 1..Len(stage_log) :
          stage_log[i].stage = "extract" /\ stage_log[i].exc = NoExc
    /\ node_data.limit.enabled => node_data.limit.size >= 1

ExtractCall ==
    stage_log[CHOOSE i \in 1..Len(stage_log) : stage_log[i].stage = "extract"]

\* C17 as stated: after an extract with a serial in range the run succeeds
\* with the one-element array of the extracted element, for every order
\* configuration, whatever the direction and the key, and every limit size
\* of at least 1.
C17_Original ==
    ExtractedInRange
    => /\ Succeeded
       /\ run_result.outputs.result = ExtractCall.ret

\* C17: after an extract with a serial in range, and with a limit size of at
\* least 1, the run succeeds with the one-element array of the extracted
\* element for every order direction, and the order stage returns the
\* singleton it was given, provided the order key is one the kind knows
\* (every key for numbers and strings).  Over files with an order key that
\* is none of name, type, extension, mime_type, transfer_method, url, size,
\* the order stage raises the invalid order key error on the singleton too,
\* and the run ends failed.
C17_SingletonOrder ==
    ExtractedInRange
    => IF node_data.order_by.enabled
          /\ ~OrderKeyValid(pool.seg.kind, node_data.order_by.key)
       THEN /\ run_result.status = "failed"
            /\ run_result.error = "Invalid order key"
            /\ raised = NoExc
       ELSE /\ Succeeded
            /\ Len(ExtractCall.ret.value) = 1
            /\ run_result.outputs.result = ExtractCall.ret
            /\ \A i \in 1..Len(stage_log) :
                  stage_log[i].stage = "order" =>
                     stage_log[i].exc = NoExc /\ stage_log[i].ret = stage_log[i].arg

\* the second of two files has been extracted, ordered by size descending
\* and limited to one element
C17_Witness ==
    /\ ExtractedInRange /\ Succeeded
    /\ pool.seg.kind = "array[file]"
    /\ Len(pool.seg.value) = 2
    /\ pool.seg.value[1] # pool.seg.value[2]
    /\ ~node_data.filter_by.enabled
    /\ node_data.order_by.enabled
    /\ node_data.order_by.key = "size" /\ node_data.order_by.value = "desc"
    /\ node_data.limit.enabled /\ node_data.limit.size = 1
    /\ run_result.outputs.result.value = <<pool.seg.value[2]>>

\* what _run records as its input: the array bound in the pool, files as dicts
ResolvedInput ==
    IF pool.seg.kind = "array[file]"
    THEN [i \in 1..Len(pool.seg.value) |-> to_dict(pool.seg.value[i])]
    ELSE pool.seg.value

\* the last stage called has raised a typed error
TypedStageFailure ==
    /\ Done /\ NonEmptyInput
    /\ Len(stage_log) > 0
    /\ stage_log[Len(stage_log)].exc.type \in ListOperatorErrors

\* C18: when a stage raises InvalidFilterValueError, InvalidKeyError or
\* InvalidConditionError the run returns a failed result whose error is the
\* message of the exception, whose inputs and process_data hold the array as
\* it was bound in the pool, not as earlier stages left it, and whose outputs
\* are empty; nothing reaches the caller.
C18_FailureKeepsResolvedInput ==
    TypedStageFailure
    => /\ run_result.status = "failed"
       /\ run_result.error = stage_log[Len(stage_log)].exc.msg
       /\ run_result.inputs = [variable |-> ResolvedInput]
       /\ run_result.process_data = [variable |-> ResolvedInput]
       /\ DOMAIN run_result.outputs = {}
       /\ raised = NoExc

\* the filter has cut two elements down to one, the extract stage has then
\* raised for a serial of 2, and the failed result shows both elements
C18_Witness ==
    /\ TypedStageFailure
    /\ Len(stage_log) = 2
    /\ stage_log[1].stage = "filter" /\ stage_log[2].stage = "extract"
    /\ Len(pool.seg.value) = 2
    /\ Len(stage_log[1].ret.value) = 1
    /\ stage_log[2].exc.type = "InvalidKeyError"
    /\ run_result.status = "failed"
    /\ Len(run_result.inputs.variable) = 2

\* C19: every stage that returns, returns a segment of the kind of the
\* segment it was given, which is the kind bound in the pool; so every
\* succeeded run over an array of files, numbers or strings, the empty
\* short-circuit included, has a result of that kind.
C19_KindPreserved ==
    (pool.bound /\ pool.seg.kind \in SupportedKinds)
    => /\ \A i \in 1..Len(stage_log) :
             /\ stage_log[i].arg.kind = pool.seg.kind
             /\ stage_log[i].exc = NoExc => stage_log[i].ret.kind = pool.seg.kind
       /\ (Done /\ Succeeded) => run_result.outputs.result.kind = pool.seg.kind

\* a run over files has gone through all four stages, extract among them,
\* and has returned a one-element array of files
C19_Witness ==
    /\ Done /\ Succeeded /\ NonEmptyInput
    /\ pool.seg.kind = "array[file]"
    /\ Len(stage_log) = 4
    /\ Len(stage_log[2].arg.value) = 2
    /\ Len(stage_log[2].ret.value) = 1
    /\ run_result.outputs.result.kind = "array[file]"
    /\ Len(run_result.outputs.result.value) = 1

\* what one invocation with configuration nd returns or raises when it runs
\* alone over the segment seg bound in the pool
AloneRun(seg, nd) ==
    LET ins == [variable |->
                   IF seg.kind = "array[file]"
                   THEN [i \in 1..Len(seg.value) |-> to_dict(seg.value[i])]
                   ELSE seg.value]
        c == Compose(FixedOrder, seg, nd)
    IN  IF ~Truthy(seg)
        THEN [raised |-> NoExc,
              run_result |->
                 NodeRunResult("succeeded", "", [variable |-> <<>>], [variable |-> <<>>],
                     [result |-> model_copy(seg, <<>>),
                      first_record |-> NoRecord, last_record |-> NoRecord])]
        ELSE IF c.exc = NoExc
        THEN [raised |-> NoExc,
              run_result |->
                 NodeRunResult("succeeded", "", ins, ins,
                     [result |-> c.val,
                      first_record |-> first_record(c.val),
                      last_record |-> last_record(c.val)])]
        ELSE IF c.exc.type \in ListOperatorErrors
        THEN [raised |-> NoExc,
              run_result |-> NodeRunResult("failed", c.exc.msg, ins, ins, EmptyDict)]
        ELSE [raised |-> c.exc, run_result |-> NotReturned]

\* the segment bound in the pool is one of those the invocations started with
\* and the invocation p that is over has the outcome of a run alone over it
AsAlone(p) ==
    pc[p] = "done"
    => /\ run_result[p] = AloneRun(pool.seg, node_data[p]).run_result
       /\ raised[p] = AloneRun(pool.seg, node_data[p]).raised

\* what invocation p read from the pool is what the pool binds: the array
\* it recorded as its input before its stages, the array its first stage was
\* given, and the result it returned when that is the pool's own segment
PoolAsReceived(p) ==
    /\ (pc[p] # "start" /\ pool.bound /\ Truthy(pool.seg))
          => inputs[p].variable = pool.seg.value
    /\ stage_log[p] # <<>> => stage_log[p][1].arg = pool.seg
    /\ (pc[p] = "done" /\ run_result[p].status = "succeeded" /\ variable[p].alias
         /\ Truthy(pool.seg))
          => run_result[p].outputs.result = pool.seg

\* the local of invocation p still is the pool's segment exactly when no
\* stage has returned but a filter without conditions
AliasUntilCopied(p) ==
    (pc[p] # "start" /\ pool.bound)
    => (variable[p].alias
          <=> \A i \in 1..Len(stage_log[p]) :
                 \/ stage_log[p][i].exc # NoExc
                 \/ /\ stage_log[p][i].stage = "filter"
                    /\ Len(node_data[p].filter_by.conditions) = 0)

\* C20: no step of an invocation changes the segment bound in the pool, and
\* no stage changes the array it was given: the pool binds the array that
\* each invocation recorded as its input and that its first stage received,
\* also when a stage returned the pool's own segment instead of a copy; so
\* each of two invocations over the same pool, interleaved between the
\* statements of _run in any way, ends with the result or the error it ends
\* with when it runs alone.
C20_InterleavedAsAlone ==
    /\ [][pool' = pool]_pc
    /\ [](\A p \in Procs : AsAlone(p) /\ PoolAsReceived(p) /\ AliasUntilCopied(p))

\* two invocations over [1, 2] are over: one has sorted it in descending
\* order; the other's filter has no condition and has returned the pool's
\* own segment, which is its result; the pool still binds [1, 2]
C20_Witness ==
    /\ \A p \in Procs : pc[p] = "done" /\ run_result[p].status = "succeeded"
    /\ pool.seg.value = <<1, 2>>
    /\ node_data[1].order_by.enabled /\ ~node_data[1].limit.enabled
    /\ run_result[1].outputs.result.value = <<2, 1>>
    /\ ~variable[1].alias
    /\ node_data[2].filter_by.enabled /\ node_data[2].filter_by.conditions = <<>>
    /\ ~node_data[2].extract_by.enabled /\ ~node_data[2].order_by.enabled
    /\ ~node_data[2].limit.enabled
    /\ variable[2].alias
    /\ run_result[2].outputs.result = pool.seg
    /\ Len(stage_log[1]) = 1 /\ Len(stage_log[2]) = 1

\* x occurs in v as a contiguous run of characters: v = pre \o x \o suf
OccursIn(x, v) ==
    \E i \in 0..Len(v) : \E j \in i..Len(v) : SubSeq(v, i + 1, j) = x

\* the filter stage was called on strings with the single condition c, whose
\* operator is "in" or "not in" and whose operand is a template
InCall ==
    /\ Returned("filter")
    /\ stage_log[1].arg.kind = "array[string]"
    /\ Len(node_data.filter_by.conditions) = 1
    /\ node_data.filter_by.conditions[1].value.t = "str"
    /\ node_data.filter_by.conditions[1].comparison_operator \in {"in", "not in"}

InOperandText == convert_template(node_data.filter_by.conditions[1].value.v)

\* C21: for an array of strings, "in" with the resolved operand text v keeps,
\* in input order, exactly the elements that occur in v as a contiguous
\* substring, so the empty string and v itself are always kept and a
\* separator inside v is an ordinary character, not a split point; "not in"
\* keeps exactly the other elements; neither raises.
C21_InIsSubstringOfOperand ==
    InCall =>
      LET v == InOperandText
          op == node_data.filter_by.conditions[1].comparison_operator
          arg == stage_log[1].arg.value
          ret == stage_log[1].ret.value
          Kept(x) == IF op = "in" THEN OccursIn(x, v) ELSE ~OccursIn(x, v)
      IN  /\ stage_log[1].exc = NoExc
          /\ stage_log[1].ret.kind = "array[string]"
          /\ ret = SelectSeq(arg, Kept)
          /\ \A i \in 1..Len(arg) :
               (arg[i] = S_empty \/ arg[i] = v)
               => IF op = "in"
                  THEN \E k \in 1..Len(ret) : ret[k] = arg[i]
                  ELSE \A k \in 1..Len(ret) : ret[k] # arg[i]

\* "in" with the operand "a,b" over <<",", "ab">>: the separator is kept as a
\* substring of the operand, "ab" is not
C21_Witness ==
    /\ InCall
    /\ node_data.filter_by.conditions[1].comparison_operator = "in"
    /\ InOperandText = S_a_comma_b
    /\ stage_log[1].arg.value = <<S_comma, S_ab>>
    /\ stage_log[1].ret.value = <<S_comma>>

====
